---- MODULE Spec2Model ----
(***************************************************************************)
(* Model of the loading cache: the LoadingCache facade (loading_cache.go), *)
(* the SingleFlightLoader (loader/singleflightloader/loader.go) and the    *)
(* DoubleDeferSandwich it invokes the source under (internal/panicutil).   *)
(*                                                                         *)
(* Callers are goroutines that each make one GetOrLoad or GetOrLoadMulti   *)
(* call.  Background tasks are the goroutines the loader spawns.  Every    *)
(* critical section of l.mu (registerKey, registerKeys, sendEntry,         *)
(* sendEntries, throwError, throwErrors) is one atomic action.             *)
(***************************************************************************)
EXTENDS Integers, Sequences, FiniteSets, TLC

\* ---- bounds ----
\* callers, keys and values; the longest batch of a GetOrLoadMulti; how many
\* of the callers make a batched call; how many contexts are cancelled
NumCallers == 2
NumKeys == 2
NumValues == 1
MaxBatch == 2
MaxMulti == 1
MaxCancel == 1
\* the in-memory storage: buckets, keys, goroutines calling it (with any
\* call, and with single-key calls only), the longest batch of a GetMulti or
\* SetMulti, and the last clock reading
NumBuckets == 2
NumMemKeys == 3
NumOps == 2
NumKeyOps == 3
MaxMemBatch == 2
MaxTime == 2
\* the composite indexes: secondary keys of each side, primary keys, and the
\* longest answer of a side index
NumSecondaryKeys == 2
NumPrimaryKeys == 2
MaxPks == 2
\* the longest batch of a GetMulti of a composite index
MaxKeysBatch == 2
\* the indexed cache: how many lookups by secondary key are made
MaxFind == 1
\* the expiration policies: the latest instant, the longest Duration, and
\* the steps the unit interval of Percentage and of the random draw is cut
\* into
MaxInstant == 3
MaxDuration == 2
NumFractions == 2
\* the on-memory index: goroutines calling Get or GetMulti, goroutines
\* calling Refresh, the longest batch of a GetMulti, and how many of the
\* readers' contexts are cancelled
NumReaders == 2
NumRefreshers == 2
MaxIndexBatch == 2
MaxReaderCancel == 1

Callers == 1..NumCallers
Keys == 1..NumKeys
Values == 1..NumValues

\* the facade and the loader
VARIABLES storage, waitlists, chans, tasks, callers, crashed
\* the in-memory storage (storage/memstorage): the buckets' maps, their
\* RWMutexes, and the goroutines calling it
VARIABLES buckets, mu, ops
\* the composite indexes (index.OrIndex, index.AndIndex): the last lookup
VARIABLES lookup
\* the composite indexes: the last batched lookup
VARIABLES multi
\* the on-memory index (index/omcindex): i.m, i.goexit, i.mu, and the
\* goroutines calling Get or GetMulti and Refresh
VARIABLES indexM, indexGoexit, indexMu, readers, refreshers

loaderVars == <<storage, waitlists, chans, tasks, callers, crashed>>
memVars == <<buckets, mu, ops>>
indexVars == <<lookup, multi>>
\* the indexed cache: what the index answered each caller's lookup by
\* secondary key
VARIABLES finds
omcVars == <<indexM, indexGoexit, indexMu, readers, refreshers>>
\* the expiration policies: the last IsExpired call
VARIABLES expired
findVars == <<finds>>
policyVars == <<expired>>
vars == <<loaderVars, memVars, indexVars, omcVars, findVars, policyVars>>

\* what a step of the one part leaves alone of the others
notLoader == <<memVars, indexVars, omcVars, findVars, policyVars>>
notMem == <<loaderVars, indexVars, omcVars, findVars, policyVars>>
notIndex == <<loaderVars, memVars, omcVars, findVars, policyVars>>
notOmc == <<loaderVars, memVars, indexVars, findVars, policyVars>>
notPolicy == <<loaderVars, memVars, indexVars, omcVars, findVars>>

\* ---- values ----
NoMsg == [kind |-> "none"]
Nil == [kind |-> "nil"]
Entry(k, v) == [kind |-> "entry", key |-> k, value |-> v]
CacheEntry(k, v, neg) == [kind |-> "cache", key |-> k, value |-> v, negative |-> neg]
Err(what, t) == [kind |-> "err", what |-> what, task |-> t]
errGoexit == Err("goexit", 0)
CtxErr(c) == Err("canceled", c)
Entries(es) == [kind |-> "entries", entries |-> es]

Range(s) == {s[i] : i \in DOMAIN s}

\* a result slice as make() leaves it: nil at every position
NoEntries(keys) == [i \in 1..Len(keys) |-> Nil]

\* the context the loader's background tasks run under: context.Background,
\* which is never done; a caller's context is done once it is cancelled
LoaderCtx == 0
CtxDone(x) == x # LoaderCtx /\ callers[x].ctxDone

\* a value is its content and the object that holds it; an object is named
\* by the place that allocated it and a number that tells that place's
\* allocations apart; the zero value holds no object of its own
Obj(site, id) == [site |-> site, id |-> id]
Val(x, a) == [val |-> x, obj |-> a]
ZeroValue == Val(0, Obj("zero", <<>>))

\* the value cloner: a deep copy, equal in content, held by the fresh object
\* a; NopValueCloner hands back its argument
CloneValue_Nop(v, a) == v
CloneValue(v, a) == [v EXCEPT !.obj = a]

\* two results equal by value: entries of the same key and content, or the
\* same nil or error
EqualByValue(m1, m2) ==
  IF m1.kind = "entry" /\ m2.kind = "entry"
  THEN m1.key = m2.key /\ m1.value.val = m2.value.val
  ELSE m1 = m2

Batches == UNION {[1..n -> Keys] : n \in 1..MaxBatch}

\* ---- Init ----
IdleCaller ==
  [pc |-> "idle", op |-> "none", keys |-> <<>>, ctxDone |-> FALSE,
   early |-> FALSE, lateReg |-> FALSE,
   entries |-> <<>>, indexes |-> <<>>, chs |-> <<>>, i |-> 1,
   lastErr |-> NoMsg, loaded |-> <<>>, result |-> NoMsg, drain |-> 0]

LoaderInit ==
  /\ storage = [k \in Keys |-> Nil]
  /\ waitlists = [k \in Keys |-> <<>>]
  /\ chans = <<>>
  /\ tasks = <<>>
  /\ callers = [c \in Callers |-> IdleCaller]
  /\ crashed = FALSE

\* ---- the background tasks, as the record keeps them ----
\* a task is in flight for its keys until its fan-out is done
Unfinished(t) == tasks[t].pc # "done"
TasksOf(k) == {t \in 1..Len(tasks) : k \in Range(tasks[t].keys)}
InFlight(k) == {t \in TasksOf(k) : Unfinished(t)}

\* how often the source was asked for key k, and how many fan-outs k has had
SrcCalls(k) == Cardinality({t \in TasksOf(k) : tasks[t].out # "none"})
FanOuts(k) == Cardinality({t \in TasksOf(k) : tasks[t].pc = "done"})

\* ---- the caller's context ----
\* the caller's context is cancelled (or its deadline passes); nothing reads
\* the context before the call waits, so this is where it is decided
Cancel(c) ==
  /\ ~crashed
  /\ callers[c].pc = "await"
  /\ ~callers[c].ctxDone
  /\ Cardinality({d \in Callers : callers[d].ctxDone}) < MaxCancel
  /\ callers' = [callers EXCEPT ![c].ctxDone = TRUE]
  /\ UNCHANGED <<notLoader, storage, waitlists, chans, tasks, crashed>>

\* ---- facade: cache-first lookup ----
\* what the facade makes of one storage result
HitEntry_IgnoreNegative(ce) == Entry(ce.key, ce.value)
HitEntry(ce) == IF ce.negative THEN Nil ELSE Entry(ce.key, ce.value)

\* a caller that has made no call yet; callers are interchangeable, so they
\* make their calls in the order of their numbers
CanCall(c) ==
  /\ ~crashed
  /\ callers[c].pc = "idle"
  /\ \A d \in Callers : d < c => callers[d].pc # "idle"

\* GetOrLoad(ctx, key), up to the call of Loader.LoadAndStore: Storage.Get
\* fails, hits, or misses
GetOrLoad(c) ==
  /\ CanCall(c)
  /\ \E key \in Keys :
       LET cacheEntry == storage[key]
           call == [callers[c] EXCEPT !.op = "single", !.keys = <<key>>,
                                      !.early = SrcCalls(key) = 0]
       IN \/ callers' = [callers EXCEPT ![c] =
                           [call EXCEPT !.pc = "done", !.result = Err("get", 0)]]
          \/ callers' = [callers EXCEPT ![c] =
                           IF cacheEntry # Nil
                           THEN [call EXCEPT !.pc = "done", !.result = HitEntry(cacheEntry)]
                           ELSE [call EXCEPT !.pc = "register"]]
  /\ UNCHANGED <<notLoader, storage, waitlists, chans, tasks, crashed>>

\* the positions of a GetMulti result that are misses, ascending
RECURSIVE MissingIndexes(_, _)
MissingIndexes(cacheEntries, i) ==
  IF i > Len(cacheEntries) THEN <<>>
  ELSE IF cacheEntries[i] = Nil
       THEN <<i>> \o MissingIndexes(cacheEntries, i + 1)
       ELSE MissingIndexes(cacheEntries, i + 1)

\* GetOrLoadMulti(ctx, keys), up to the call of Loader.LoadAndStoreMulti:
\* Storage.GetMulti fails, or its hits are kept and its misses are left to
\* the loader
GetOrLoadMultiOf(c, keys) ==
  LET cacheEntries == [i \in 1..Len(keys) |-> storage[keys[i]]]
      entries == [i \in 1..Len(keys) |->
                    IF cacheEntries[i] = Nil THEN Nil ELSE HitEntry(cacheEntries[i])]
      indexes == MissingIndexes(cacheEntries, 1)
      call == [callers[c] EXCEPT !.op = "multi", !.keys = keys,
                                 !.early = \A k \in Range(keys) : SrcCalls(k) = 0]
  IN \/ callers' = [callers EXCEPT ![c] =
                      [call EXCEPT !.pc = "done", !.result = Err("get", 0)]]
     \/ callers' = [callers EXCEPT ![c] =
                      IF Len(indexes) = 0
                      THEN [call EXCEPT !.pc = "done", !.entries = entries,
                                        !.result = Entries(entries)]
                      ELSE [call EXCEPT !.pc = "register", !.entries = entries,
                                        !.indexes = indexes]]

GetOrLoadMulti(c) ==
  /\ CanCall(c)
  /\ Cardinality({d \in Callers : callers[d].op = "multi"}) < MaxMulti
  /\ \E keys \in Batches : GetOrLoadMultiOf(c, keys)
  /\ UNCHANGED <<notLoader, storage, waitlists, chans, tasks, crashed>>

\* ---- single-flight loader: registration ----
\* registerKey / registerKeys: the registration that makes the list non-empty
\* is the one that launches the fetch (len(l.waitlists[key]) == 1)
IsFirstWaiter_Always(wl) == Len(wl) >= 1
IsFirstWaiter_OrSecond(wl) == Len(wl) <= 2
IsFirstWaiter(wl) == Len(wl) = 1

\* the context handed to the background task: l.context(), not the caller's
FetchCtx_Caller(c) == c
FetchCtx(c) == LoaderCtx

NewTask(op, keys, ctx) ==
  [op |-> op, keys |-> keys, ctx |-> ctx, pc |-> "fetch", out |-> "none",
   entries |-> <<>>, err |-> NoMsg, storeOut |-> "none"]

\* the fetch a new channel of key k waits for (history: the task that is in
\* flight for k when the channel is registered, or the one just launched)
ServingTask(k, targetKeys, newTask) ==
  IF k \in Range(targetKeys) THEN newTask
  ELSE IF InFlight(k) # {} THEN CHOOSE t \in InFlight(k) : TRUE ELSE 0

NewChan(k, t) ==
  [key |-> k, task |-> t, msg |-> NoMsg, sends |-> 0, closed |-> FALSE, recvd |-> FALSE,
   order |-> 0]

\* the loop of registerKeys over keys[i..]: wl is l.waitlists so far
RECURSIVE registerKeysLoop(_, _, _, _, _)
registerKeysLoop(keys, i, wl, targetKeys, channels) ==
  IF i > Len(keys)
  THEN [wl |-> wl, targetKeys |-> targetKeys, channels |-> channels]
  ELSE LET key == keys[i]
           ch == Len(chans) + i
           wl2 == [wl EXCEPT ![key] = Append(@, ch)]
       IN registerKeysLoop(keys, i + 1, wl2,
                           IF IsFirstWaiter(wl2[key]) THEN Append(targetKeys, key)
                                                      ELSE targetKeys,
                           Append(channels, ch))

\* LoadAndStore: registerKey
registerKey(c) ==
  /\ ~crashed
  /\ callers[c].pc = "register"
  /\ callers[c].op = "single"
  /\ LET key == callers[c].keys[1]
         ch == Len(chans) + 1
         wl == Append(waitlists[key], ch)
         first == IsFirstWaiter(wl)
         t == Len(tasks) + 1
     IN /\ waitlists' = [waitlists EXCEPT ![key] = wl]
        /\ tasks' = IF first THEN Append(tasks, NewTask("single", <<key>>, FetchCtx(c)))
                             ELSE tasks
        /\ chans' = Append(chans,
                           NewChan(key, ServingTask(key, IF first THEN <<key>> ELSE <<>>, t)))
        /\ callers' = [callers EXCEPT ![c] =
                         [@ EXCEPT !.pc = "await", !.chs = <<ch>>, !.i = 1,
                                   !.lateReg = FanOuts(key) > 0]]
  /\ UNCHANGED <<notLoader, storage, crashed>>

\* LoadAndStoreMulti: registerKeys over the missing keys
registerKeys(c) ==
  /\ ~crashed
  /\ callers[c].pc = "register"
  /\ callers[c].op = "multi"
  /\ LET missing == [i \in 1..Len(callers[c].indexes) |->
                       callers[c].keys[callers[c].indexes[i]]]
         r == registerKeysLoop(missing, 1, waitlists, <<>>, <<>>)
         t == Len(tasks) + 1
     IN /\ waitlists' = r.wl
        /\ tasks' = IF Len(r.targetKeys) # 0
                    THEN Append(tasks, NewTask("multi", r.targetKeys, FetchCtx(c)))
                    ELSE tasks
        /\ chans' = chans \o [i \in 1..Len(missing) |->
                                NewChan(missing[i], ServingTask(missing[i], r.targetKeys, t))]
        /\ callers' = [callers EXCEPT ![c] =
                         [@ EXCEPT !.pc = "await", !.chs = r.channels, !.i = 1,
                                   !.loaded = NoEntries(missing),
                                   !.lateReg = \E k \in Range(missing) : FanOuts(k) > 0]]
  /\ UNCHANGED <<notLoader, storage, crashed>>

\* ---- single-flight loader: the background task ----
\* what the source may hand back for one key: a miss (nil), a value entry, or
\* a negative-cache entry (zero value); a is the object a value entry holds
SourceEntry(k, a) ==
  {Nil, CacheEntry(k, ZeroValue, TRUE)} \cup {CacheEntry(k, Val(v, a), FALSE) : v \in Values}

\* what one call of source.Get / source.GetMulti may do: return entries
\* aligned to the keys, return an error, panic, or call runtime.Goexit; it
\* returns the context's error only when the context it was given is done
SourceOutcomes(t) ==
  LET keys == tasks[t].keys
  IN {[kind |-> "return", label |-> "ok", entries |-> es, err |-> NoMsg] :
        es \in {f \in [1..Len(keys) ->
                           UNION {SourceEntry(keys[i], Obj("source", <<t, i>>)) :
                                    i \in 1..Len(keys)}] :
                  \A i \in 1..Len(keys) :
                    f[i] \in SourceEntry(keys[i], Obj("source", <<t, i>>))}}
     \cup {[kind |-> "return", label |-> "error", entries |-> NoEntries(keys),
            err |-> Err("source", t)],
           [kind |-> "panic", label |-> "panic", entries |-> NoEntries(keys),
            err |-> NoMsg],
           [kind |-> "goexit", label |-> "goexit", entries |-> NoEntries(keys),
            err |-> NoMsg]}
     \cup (IF CtxDone(tasks[t].ctx)
           THEN {[kind |-> "return", label |-> "error", entries |-> NoEntries(keys),
                  err |-> CtxErr(tasks[t].ctx)]}
           ELSE {})

\* DoubleDeferSandwich.Invoke: a normal return hands back f's error, a panic
\* is recovered and handed back as an error, a Goexit runs OnGoexit
DDSInvoke_PanicLost(t, o) ==
  CASE o.kind = "return" -> [err |-> o.err, goexit |-> FALSE]
    [] o.kind = "panic" -> [err |-> NoMsg, goexit |-> FALSE]
    [] o.kind = "goexit" -> [err |-> NoMsg, goexit |-> TRUE]
DDSInvoke(t, o) ==
  CASE o.kind = "return" -> [err |-> o.err, goexit |-> FALSE]
    [] o.kind = "panic" -> [err |-> Err("panic", t), goexit |-> FALSE]
    [] o.kind = "goexit" -> [err |-> NoMsg, goexit |-> TRUE]

\* loadKeyAndStore / loadKeysAndStore, the source call: on Goexit the task
\* throws errGoexit (OnGoexit), on an error it throws the error, otherwise it
\* goes on to store; loadKeyAndStore skips the store of a nil entry
loadKeysAndStore_fetch(t) ==
  /\ ~crashed
  /\ tasks[t].pc = "fetch"
  /\ \E o \in SourceOutcomes(t) :
       LET r == DDSInvoke(t, o)
       IN tasks' = [tasks EXCEPT ![t] =
                      [@ EXCEPT !.out = o.label,
                                !.entries = o.entries,
                                !.err = IF r.goexit THEN errGoexit ELSE r.err,
                                !.pc = IF r.goexit \/ r.err # NoMsg THEN "throw"
                                       ELSE IF tasks[t].op = "single" /\ o.entries[1] = Nil
                                            THEN "send"
                                            ELSE "store"]]
  /\ UNCHANGED <<notLoader, storage, waitlists, chans, callers, crashed>>

\* storage.Set / storage.SetMulti of a storage that succeeds: every non-nil
\* entry replaces what is stored under its key
RECURSIVE SetMulti(_, _, _)
SetMulti(st, entries, i) ==
  IF i > Len(entries) THEN st
  ELSE SetMulti(IF entries[i] # Nil THEN [st EXCEPT ![entries[i].key] = entries[i]] ELSE st,
                entries, i + 1)

\* where the task goes after the store call returned: on to the fan-out, or
\* to throw the store's error
AfterStore_Fallback(so) == "send"
AfterStore_Unchecked(so) == IF so = "panic" THEN "throw" ELSE "send"
AfterStore(so) == IF so = "ok" THEN "send" ELSE "throw"

\* loadKeyAndStore / loadKeysAndStore, the storage call; it is made outside
\* the sandwich, so a panic in it is not recovered and ends the process
loadKeysAndStore_store(t) ==
  /\ ~crashed
  /\ tasks[t].pc = "store"
  /\ \E so \in {"ok", "err", "panic"} :
       /\ storage' = IF so = "ok" THEN SetMulti(storage, tasks[t].entries, 1) ELSE storage
       /\ crashed' = (so = "panic")
       /\ tasks' = [tasks EXCEPT ![t] =
                      [@ EXCEPT !.storeOut = so,
                                !.err = IF so = "err" THEN Err("store", t) ELSE @,
                                !.pc = IF so = "panic" THEN "crashed" ELSE AfterStore(so)]]
  /\ UNCHANGED <<notLoader, waitlists, chans, callers>>

\* ---- single-flight loader: fan-out ----
\* wl <- m; close(wl)
\* (order: the channel's turn within its list's fan-out, kept for the record)
Send(chan, m, j) ==
  [chan EXCEPT !.msg = m, !.sends = @ + 1, !.closed = TRUE, !.order = j]

IndexIn(list, ch) == CHOOSE j \in 1..Len(list) : list[j] = ch

\* what waiter j (1 is the first) of a list is sent for a cache entry: nil
\* for a miss or a negative entry, else the entry, its value cloned (into
\* the fresh object a) for every waiter but the first
SendMsg_Nil(cacheEntry, j, a) == Nil
SendMsg_MissAsZero(cacheEntry, j, a) ==
  IF cacheEntry = Nil THEN Entry(0, ZeroValue)
  ELSE IF cacheEntry.negative THEN Nil
  ELSE Entry(cacheEntry.key,
             IF j # 1 THEN CloneValue(cacheEntry.value, a) ELSE cacheEntry.value)
SendMsg(cacheEntry, j, a) ==
  IF cacheEntry = Nil \/ cacheEntry.negative THEN Nil
  ELSE Entry(cacheEntry.key,
             IF j # 1 THEN CloneValue(cacheEntry.value, a) ELSE cacheEntry.value)

\* the loop of sendEntries over keys[i..] (sendEntry is the one-key case):
\* every channel of the key's list is sent its message and closed, in list
\* order, and the list is truncated
RECURSIVE sendEntriesLoop(_, _, _, _, _)
sendEntriesLoop(keys, cacheEntries, i, wl, chs) ==
  IF i > Len(keys) THEN [wl |-> wl, chans |-> chs]
  ELSE LET k == keys[i]
           list == wl[k]
       IN sendEntriesLoop(keys, cacheEntries, i + 1,
            [wl EXCEPT ![k] = <<>>],
            [ch \in DOMAIN chs |->
               IF ch \in Range(list)
               THEN Send(chs[ch], SendMsg(cacheEntries[i], IndexIn(list, ch),
                                          Obj("sendEntries", <<ch>>)),
                         IndexIn(list, ch))
               ELSE chs[ch]])

\* the loop of throwErrors over keys[i..] (throwError is the one-key case)
RECURSIVE throwErrorsLoop(_, _, _, _, _)
throwErrorsLoop(keys, err, i, wl, chs) ==
  IF i > Len(keys) THEN [wl |-> wl, chans |-> chs]
  ELSE LET k == keys[i]
           list == wl[k]
       IN throwErrorsLoop(keys, err, i + 1,
            [wl EXCEPT ![k] = <<>>],
            [ch \in DOMAIN chs |->
               IF ch \in Range(list) THEN Send(chs[ch], err, IndexIn(list, ch))
               ELSE chs[ch]])

FanOut_KeepLists(t, r) ==
  /\ waitlists' = waitlists
  /\ chans' = r.chans
  /\ tasks' = [tasks EXCEPT ![t].pc = "done"]
  /\ UNCHANGED <<notLoader, storage, callers, crashed>>
FanOut(t, r) ==
  /\ waitlists' = r.wl
  /\ chans' = r.chans
  /\ tasks' = [tasks EXCEPT ![t].pc = "done"]
  /\ UNCHANGED <<notLoader, storage, callers, crashed>>

\* sendEntry / sendEntries, under l.mu
sendEntries(t) ==
  /\ ~crashed
  /\ tasks[t].pc = "send"
  /\ FanOut(t, sendEntriesLoop(tasks[t].keys, tasks[t].entries, 1,
                               waitlists, chans))

\* throwError / throwErrors, under l.mu
throwErrors(t) ==
  /\ ~crashed
  /\ tasks[t].pc = "throw"
  /\ FanOut(t, throwErrorsLoop(tasks[t].keys, tasks[t].err, 1,
                               waitlists, chans))

\* ---- single-flight loader: the waiting caller ----
\* a channel holds a value to receive (buffer of one)
Ready(ch) == chans[ch].sends > 0 /\ ~chans[ch].recvd

\* does the receiver of e thread-exit: e.L == errGoexit
IsGoexit_Never(e) == FALSE
IsGoexit(e) == e = errGoexit

\* LoadAndStore, select case e := <-ch
LoadAndStore_recv(c) ==
  /\ ~crashed
  /\ callers[c].pc = "await"
  /\ callers[c].op = "single"
  /\ LET ch == callers[c].chs[1]
         e == chans[ch].msg
     IN /\ Ready(ch)
        /\ chans' = [chans EXCEPT ![ch].recvd = TRUE]
        /\ callers' = [callers EXCEPT ![c] =
                         IF e.kind = "err" /\ IsGoexit(e)
                         THEN [@ EXCEPT !.pc = "goexit", !.i = 2]
                         ELSE [@ EXCEPT !.pc = "done", !.i = 2, !.result = e]]
  /\ UNCHANGED <<notLoader, storage, waitlists, tasks, crashed>>

\* lastErr = e.L
NextLastErr_First(lastErr, e) == IF lastErr = NoMsg THEN e ELSE lastErr
NextLastErr(lastErr, e) == e

\* GetOrLoadMulti after LoadAndStoreMulti: the loaded entries spliced into
\* the output at the missing positions
Splice_Packed(entries, indexes, loaded) ==
  [p \in 1..Len(entries) |-> IF p <= Len(loaded) THEN loaded[p] ELSE entries[p]]
Splice(entries, indexes, loaded) ==
  [p \in 1..Len(entries) |->
     IF \E i \in 1..Len(indexes) : indexes[i] = p
     THEN loaded[CHOOSE i \in 1..Len(indexes) : indexes[i] = p]
     ELSE entries[p]]

\* awaitChannels, where the call stands after one round of the loop: an error
\* is recorded and the loop continues, so only the last round ends the wait
AfterRecv_Abort(isErr, last) == IF last \/ isErr THEN "done" ELSE "await"
AfterRecv(isErr, last) == IF last THEN "done" ELSE "await"

\* awaitChannels, select case e := <-ch of one round of the loop, and after
\* the last round the return of LoadAndStoreMulti and of GetOrLoadMulti
awaitChannels_recv(c) ==
  /\ ~crashed
  /\ callers[c].pc = "await"
  /\ callers[c].op = "multi"
  /\ LET i == callers[c].i
         ch == callers[c].chs[i]
         e == chans[ch].msg
         isErr == e.kind = "err"
         lastErr == IF isErr THEN NextLastErr(callers[c].lastErr, e) ELSE callers[c].lastErr
         loaded == IF isErr THEN callers[c].loaded
                   ELSE [callers[c].loaded EXCEPT ![i] = e]
         last == i = Len(callers[c].chs)
     IN /\ Ready(ch)
        /\ chans' = [chans EXCEPT ![ch].recvd = TRUE]
        /\ callers' = [callers EXCEPT ![c] =
             IF isErr /\ IsGoexit(e)
             THEN [@ EXCEPT !.pc = "goexit", !.i = i + 1, !.lastErr = lastErr]
             ELSE [@ EXCEPT !.i = i + 1, !.lastErr = lastErr, !.loaded = loaded,
                            !.pc = AfterRecv(isErr, last),
                            !.result = IF AfterRecv(isErr, last) # "done" THEN NoMsg
                                       ELSE IF lastErr # NoMsg THEN lastErr
                                       ELSE Entries(Splice(callers[c].entries,
                                                           callers[c].indexes, loaded))]]
  /\ UNCHANGED <<notLoader, storage, waitlists, tasks, crashed>>

\* LoadAndStore / awaitChannels, select case <-ctx.Done(): the call returns
\* ctx.Err() and leaves a helper goroutine to receive from the channels not
\* yet received from; the waitlists are not touched
ctxDone_return_Unregister(c) ==
  /\ ~crashed
  /\ callers[c].pc = "await"
  /\ callers[c].ctxDone
  /\ callers' = [callers EXCEPT ![c] =
                   [@ EXCEPT !.pc = "done", !.result = CtxErr(c), !.drain = callers[c].i]]
  /\ waitlists' = [k \in Keys |->
                     SelectSeq(waitlists[k], LAMBDA ch : ch \notin Range(callers[c].chs))]
  /\ UNCHANGED <<notLoader, storage, chans, tasks, crashed>>
ctxDone_return(c) ==
  /\ ~crashed
  /\ callers[c].pc = "await"
  /\ callers[c].ctxDone
  /\ callers' = [callers EXCEPT ![c] =
                   [@ EXCEPT !.pc = "done", !.result = CtxErr(c), !.drain = callers[c].i]]
  /\ UNCHANGED <<notLoader, storage, waitlists, chans, tasks, crashed>>

\* the helper goroutine: <-ch, for the channels from the offset on
drain(c) ==
  /\ ~crashed
  /\ callers[c].drain \in 1..Len(callers[c].chs)
  /\ Ready(callers[c].chs[callers[c].drain])
  /\ chans' = [chans EXCEPT ![callers[c].chs[callers[c].drain]].recvd = TRUE]
  /\ callers' = [callers EXCEPT ![c].drain = @ + 1]
  /\ UNCHANGED <<notLoader, storage, waitlists, tasks, crashed>>

\* ---- expiry ----
\* the clock reaches ExpiresAt of the entry stored for k: from here on
\* Storage.Get reports a miss for k (now.Before(ExpiresAt) is false), which
\* is all the facade and the loader can tell of the entry
Expire(k) ==
  /\ ~crashed
  /\ storage[k] # Nil
  /\ storage' = [storage EXCEPT ![k] = Nil]
  /\ UNCHANGED <<notLoader, waitlists, chans, tasks, callers, crashed>>

\* ---- in-memory storage (storage/memstorage) ----
Ops == 1..NumOps
KeyOps == 1..NumKeyOps
MemKeys == 1..NumMemKeys
BucketIds == 0..(NumBuckets - 1)
\* what clock.Now() may read, and when an entry may expire
Times == 0..MaxTime
Expiries == 1..(MaxTime - 1)

\* a cache entry with its ExpiresAt
MemEntry(k, v, neg, at) ==
  [kind |-> "cache", key |-> k, value |-> v, negative |-> neg, expiresAt |-> at]

\* Go's %, which takes the sign of the dividend
GoMod(a, n) == IF a < 0 THEN 0 - ((0 - a) % n) ELSE a % n

\* options.hashKey: any function into int; this one has a negative value
hashKey(k) == k - 2

\* resolveBucket: hashKey(key) % len(buckets), negated when negative
resolveBucket(key) ==
  LET index == GoMod(hashKey(key), NumBuckets)
  IN IF index < 0 THEN index * (0 - 1) ELSE index

\* resolveBuckets: the distinct bucket indexes of the keys, as first seen
RECURSIVE resolveBuckets(_, _, _)
resolveBuckets(keys, i, bs) ==
  IF i > Len(keys) THEN bs
  ELSE resolveBuckets(keys, i + 1,
                      IF resolveBucket(keys[i]) \in Range(bs) THEN bs
                      ELSE Append(bs, resolveBucket(keys[i])))

\* sort.Ints
RECURSIVE SortInts(_)
SortInts_Unsorted(bs) == bs
SortInts(bs) ==
  IF bs = <<>> THEN <<>>
  ELSE LET least == CHOOSE x \in Range(bs) : \A y \in Range(bs) : x <= y
       IN <<least>> \o SortInts(SelectSeq(bs, LAMBDA x : x # least))

\* cloneCacheEntry: a negative entry keeps its key and ExpiresAt only, any
\* other has its value cloned (into the fresh object a)
cloneCacheEntry_Shared(v, a) == v
cloneCacheEntry(v, a) ==
  IF v.negative THEN MemEntry(v.key, ZeroValue, TRUE, v.expiresAt)
  ELSE MemEntry(v.key, CloneValue(v.value, a), FALSE, v.expiresAt)

\* now.Before(v.ExpiresAt)
Before_OrAt(now, at) == now <= at
Before(now, at) == now < at

IdleOp ==
  [kind |-> "idle", pc |-> "idle", keys |-> <<>>, entries |-> <<>>, locks |-> <<>>,
   held |-> 0, i |-> 1, now |-> 0 - 1, result |-> <<>>]

MemInit ==
  /\ buckets = [b \in BucketIds |-> [k \in MemKeys |-> Nil]]
  /\ mu = [b \in BucketIds |-> [w |-> 0, r |-> {}]]
  /\ ops = [o \in Ops \cup KeyOps |-> IdleOp]

\* the arguments of the calls: key batches, and entries whose value is an
\* object of the caller's holding the caller's number
MemBatches == UNION {[1..n -> MemKeys] : n \in 0..MaxMemBatch}
ArgEntry(o, i, k, neg, at) == MemEntry(k, Val(o, Obj("caller", <<o, i>>)), neg, at)
SetArgs(o) == {ArgEntry(o, 1, k, neg, at) : k \in MemKeys, neg \in BOOLEAN, at \in Expiries}
SetMultiArgs(o) ==
  UNION {{es \in [1..n -> {Nil} \cup {ArgEntry(o, i, k, FALSE, at) :
                                         i \in 1..n, k \in MemKeys, at \in Expiries}] :
            \A i \in 1..n : es[i] # Nil => es[i].value.obj.id = <<o, i>>} :
         n \in 0..MaxMemBatch}

\* the keys of the non-nil entries, in order
RECURSIVE KeysOf(_, _)
KeysOf(entries, i) ==
  IF i > Len(entries) THEN <<>>
  ELSE IF entries[i] # Nil THEN <<entries[i].key>> \o KeysOf(entries, i + 1)
       ELSE KeysOf(entries, i + 1)

\* the calls a goroutine may make, each with the buckets it will lock: the
\* key's bucket, or the batch's distinct buckets sorted
KeyCalls(o) ==
  {[kind |-> "Get", keys |-> <<k>>, entries |-> <<>>,
    locks |-> <<resolveBucket(k)>>] : k \in MemKeys}
  \cup {[kind |-> "Set", keys |-> <<e.key>>, entries |-> <<e>>,
         locks |-> <<resolveBucket(e.key)>>] : e \in SetArgs(o)}
BatchCalls(o) ==
  {[kind |-> "GetMulti", keys |-> ks, entries |-> <<>>,
    locks |-> SortInts(resolveBuckets(ks, 1, <<>>))] : ks \in MemBatches}
  \cup {[kind |-> "SetMulti", keys |-> KeysOf(es, 1), entries |-> es,
         locks |-> SortInts(resolveBuckets(KeysOf(es, 1), 1, <<>>))] :
          es \in SetMultiArgs(o)}

\* a goroutine makes one of the calls, up to the first lock; goroutines are
\* interchangeable, so they make their calls in the order of their numbers
MemCallOf(o, calls) ==
  /\ ops[o].pc = "idle"
  /\ \A p \in DOMAIN ops : p < o => ops[p].pc # "idle"
  /\ \E call \in calls :
       ops' = [ops EXCEPT ![o] =
                 [IdleOp EXCEPT !.kind = call.kind, !.keys = call.keys,
                                !.entries = call.entries, !.locks = call.locks,
                                !.pc = "lock"]]
  /\ UNCHANGED <<notMem, buckets, mu>>

\* Get, GetMulti, Set or SetMulti is called
MemCall(o) == MemCallOf(o, KeyCalls(o) \cup BatchCalls(o))
\* Get or Set is called
MemCallKey(o) == MemCallOf(o, KeyCalls(o))

IsReader(o) == ops[o].kind \in {"Get", "GetMulti"}

\* the lock o asked for last is its own: RLock has returned, or Lock has,
\* which waits until the readers that came before it are gone
Acquired_NoWait(o) == TRUE
Acquired(o) ==
  IF ops[o].held = 0 \/ IsReader(o) THEN TRUE
  ELSE mu[ops[o].locks[ops[o].held]].r = {}

\* bucket.mu.RLock() / bucket.mu.Lock() on the next bucket: a reader enters
\* unless a writer holds or awaits the mutex; a writer takes the writers'
\* turn when no other has it, which keeps new readers out
MemLock(o) ==
  /\ ops[o].pc = "lock"
  /\ ops[o].held < Len(ops[o].locks)
  /\ Acquired(o)
  /\ LET b == ops[o].locks[ops[o].held + 1]
     IN /\ mu[b].w = 0
        /\ mu' = [mu EXCEPT ![b] = IF IsReader(o) THEN [@ EXCEPT !.r = @ \cup {o}]
                                                  ELSE [@ EXCEPT !.w = o]]
  /\ ops' = [ops EXCEPT ![o].held = @ + 1]
  /\ UNCHANGED <<notMem, buckets>>

AllLocked_FirstLocked(o) == ops[o].pc = "lock" /\ ops[o].held >= 1 /\ Acquired(o)
AllLocked(o) == ops[o].pc = "lock" /\ ops[o].held = Len(ops[o].locks) /\ Acquired(o)
AfterBody(o) == IF ops[o].locks = <<>> THEN "done" ELSE "unlock"

\* what a lookup of key under the clock reading now hands back
Lookup(key, now, a) ==
  LET v == buckets[resolveBucket(key)][key]
  IN IF v # Nil /\ Before(now, v.expiresAt) THEN cloneCacheEntry(v, a) ELSE Nil

\* the result slice: position i is the lookup of keys[i]; o is the caller,
\* whose i-th result is the clone's fresh object
GetMultiResult_Reversed(keys, now, o) ==
  [i \in 1..Len(keys) |-> Lookup(keys[Len(keys) + 1 - i], now, Obj("get", <<o, i>>))]
GetMultiResult(keys, now, o) ==
  [i \in 1..Len(keys) |-> Lookup(keys[i], now, Obj("get", <<o, i>>))]

\* Get and GetMulti under their read locks: one clock reading, then one
\* lookup per key into the position of the key
MemRead(o) ==
  /\ AllLocked(o)
  /\ IsReader(o)
  /\ \E now \in Times :
       ops' = [ops EXCEPT ![o] =
                 [@ EXCEPT !.now = now, !.pc = AfterBody(o),
                           !.result = GetMultiResult(ops[o].keys, now, o)]]
  /\ UNCHANGED <<notMem, buckets, mu>>

\* Set and SetMulti under their write locks: one round of the loop over the
\* entries, which stores a clone of a non-nil entry under its key
MemWrite(o) ==
  /\ AllLocked(o)
  /\ ~IsReader(o)
  /\ LET i == ops[o].i
         e == ops[o].entries[i]
     IN IF i > Len(ops[o].entries)
        THEN /\ ops' = [ops EXCEPT ![o].pc = AfterBody(o)]
             /\ UNCHANGED buckets
        ELSE /\ buckets' = IF e = Nil THEN buckets
                           ELSE [buckets EXCEPT ![resolveBucket(e.key)][e.key] =
                                   cloneCacheEntry(e, Obj("set", <<o, i>>))]
             /\ ops' = [ops EXCEPT ![o].i = i + 1]
  /\ UNCHANGED <<notMem, mu>>

\* the deferred RUnlock / Unlock calls, last locked first
MemUnlock(o) ==
  /\ ops[o].pc = "unlock"
  /\ LET b == ops[o].locks[ops[o].held]
     IN mu' = [mu EXCEPT ![b] = IF IsReader(o) THEN [@ EXCEPT !.r = @ \ {o}]
                                               ELSE [@ EXCEPT !.w = 0]]
  /\ ops' = [ops EXCEPT ![o] = [@ EXCEPT !.held = @ - 1,
                                         !.pc = IF ops[o].held = 1 THEN "done" ELSE "unlock"]]
  /\ UNCHANGED <<notMem, buckets>>

MemStep(o) == MemLock(o) \/ MemRead(o) \/ MemWrite(o) \/ MemUnlock(o)

\* ---- composite indexes (index.Keys, index.OrIndex, index.AndIndex) ----
SecondaryKeys == 1..NumSecondaryKeys
PrimaryKeys == 1..NumPrimaryKeys

\* MaybeKey: a key, or Empty with the zero key
MaybeKey(k, empty) == [Key |-> k, Empty |-> empty]
MaybeKeys == {MaybeKey(k, FALSE) : k \in SecondaryKeys} \cup {MaybeKey(0, TRUE)}
\* Keys: a left and a right secondary key, either of which may be missing
CompositeKeys == [Left : MaybeKeys, Right : MaybeKeys]

\* what a side index may answer: primary keys, or an error
PkSeqs == UNION {[1..n -> PrimaryKeys] : n \in 0..MaxPks}
Answers == {[pks |-> pks, err |-> FALSE] : pks \in PkSeqs} \cup {[pks |-> <<>>, err |-> TRUE]}
NoAnswer == [pks |-> <<>>, err |-> FALSE]

\* iterutil.Union / iterutil.Intersection over the values of seq (the input
\* iterators one after the other): a value is yielded when it has been seen
\* n times, n = 1 for Union and the number of iterators for Intersection
RECURSIVE YieldWhenSeen(_, _, _, _)
YieldWhenSeen(seq, n, i, seen) ==
  IF i > Len(seq) THEN <<>>
  ELSE LET v == seq[i]
           count == seen[v] + 1
       IN (IF count = n THEN <<v>> ELSE <<>>)
          \o YieldWhenSeen(seq, n, i + 1, [seen EXCEPT ![v] = count])
Union(a, b) == YieldWhenSeen(a \o b, 1, 1, [v \in PrimaryKeys |-> 0])
Intersection(a, b) == YieldWhenSeen(a \o b, 2, 1, [v \in PrimaryKeys |-> 0])

\* OrIndex.Get after both lookups: switch on len(leftPks) + len(rightPks)
OrIndexResult(key, leftPks, rightPks) ==
  LET total == Len(leftPks) + Len(rightPks)
  IN IF total = 0 THEN <<>>
     ELSE IF total = Len(leftPks) THEN leftPks
     ELSE IF total = Len(rightPks) THEN rightPks
     ELSE Union(rightPks, leftPks)

\* AndIndex.Get after both lookups: one side's answer alone is returned only
\* when the other key is missing
AndIndexResult_MissingIsEmpty(key, leftPks, rightPks) ==
  IF Len(leftPks) = 0 \/ Len(rightPks) = 0 THEN <<>>
  ELSE Intersection(leftPks, rightPks)
AndIndexResult(key, leftPks, rightPks) ==
  LET total == Len(leftPks) + Len(rightPks)
  IN IF total = 0 THEN <<>>
     ELSE IF total = Len(leftPks) THEN (IF key.Right.Empty THEN leftPks ELSE <<>>)
     ELSE IF total = Len(rightPks) THEN (IF key.Left.Empty THEN rightPks ELSE <<>>)
     ELSE Intersection(leftPks, rightPks)

\* Get of either composite index: the left index is asked when the left key
\* is present, and an error of it ends the call; then the right one likewise
CompositeGet(op, key, leftAns, rightAns) ==
  LET askLeft == ~key.Left.Empty
      left == IF askLeft THEN leftAns ELSE NoAnswer
      askRight == ~key.Right.Empty /\ ~left.err
      right == IF askRight THEN rightAns ELSE NoAnswer
  IN [op |-> op, key |-> key, askedLeft |-> askLeft, askedRight |-> askRight,
      left |-> left, right |-> right,
      err |-> left.err \/ right.err,
      pks |-> IF left.err \/ right.err THEN <<>>
              ELSE IF op = "OrIndex.Get" THEN OrIndexResult(key, left.pks, right.pks)
              ELSE AndIndexResult(key, left.pks, right.pks)]

IndexInit ==
  lookup = [op |-> "none", key |-> [Left |-> MaybeKey(0, TRUE), Right |-> MaybeKey(0, TRUE)],
            askedLeft |-> FALSE, askedRight |-> FALSE, left |-> NoAnswer,
            right |-> NoAnswer, err |-> FALSE, pks |-> <<>>]

\* one lookup is made, of either index
OrIndexGet ==
  /\ lookup.op = "none"
  /\ \E key \in CompositeKeys, leftAns \in Answers, rightAns \in Answers :
       lookup' = CompositeGet("OrIndex.Get", key, leftAns, rightAns)
  /\ UNCHANGED <<notIndex, multi>>

AndIndexGet ==
  /\ lookup.op = "none"
  /\ \E key \in CompositeKeys, leftAns \in Answers, rightAns \in Answers :
       lookup' = CompositeGet("AndIndex.Get", key, leftAns, rightAns)
  /\ UNCHANGED <<notIndex, multi>>

\* ---- on-memory index (index/omcindex, internal/ctxsync) ----
Readers == 1..NumReaders
Refreshers == 1..NumRefreshers

\* the list of a secondary key, and a secondary key the map has no list for
Pks(list) == [kind |-> "pks", pks |-> list]
NoPks == [kind |-> "nil"]
\* i.m before the first Refresh, and what a source hands back as "no map"
NilMap == [kind |-> "nil"]
\* a snapshot: the map a source returned, and the Refresh call that
\* installed it (by is kept for the record)
Snapshot(f, mp) == [kind |-> "map", by |-> f, map |-> mp.map]

\* the maps a source may return: the first n secondary keys have a list
IndexMaps ==
  {[kind |-> "map", map |-> [sk \in SecondaryKeys |-> IF sk <= n THEN Pks(<<1>>) ELSE NoPks]] :
     n \in 1..NumSecondaryKeys}

\* what one call of source.GetAll may do: return a map (which may be nil)
\* and no error, return an error, panic, or call runtime.Goexit
GetAllOutcomes ==
  {[kind |-> "return", err |-> FALSE, map |-> mp] : mp \in IndexMaps \cup {NilMap}}
  \cup {[kind |-> "return", err |-> TRUE, map |-> NilMap],
        [kind |-> "panic", err |-> FALSE, map |-> NilMap],
        [kind |-> "goexit", err |-> FALSE, map |-> NilMap]}

\* the batches of a GetMulti: the first n secondary keys
IndexBatches == {[i \in 1..n |-> i] : n \in 2..MaxIndexBatch}

\* a goroutine that calls Get or GetMulti once.  g is where the goroutine
\* stands that LockCtx or WaitCtx started to take the read lock for the call:
\* "rlocking" (in RLock), "held" (the read lock is taken, the channel is
\* closed), "spawned" (started by WaitCtx, Cond.Wait not yet called, the
\* call's read lock still held), "waiting" (in Cond.Wait, the read lock
\* released), "notified" (woken, in RLock again).  abandoned: the call
\* returned ctx.Err() and left a helper to release the lock once it is taken.
\* after is kept for the record: a Refresh had returned nil before the call
\* was made.
IdleReader ==
  [pc |-> "idle", kind |-> "none", sks |-> <<>>, ctxDone |-> FALSE, g |-> "none",
   abandoned |-> FALSE, i |-> 1, lists |-> <<>>, result |-> "none", after |-> FALSE]

IdleRefresher == [pc |-> "idle", out |-> "none", map |-> NilMap, result |-> "none"]

OmcInit ==
  /\ indexM = NilMap
  /\ indexGoexit = FALSE
  /\ indexMu = [r |-> {}, w |-> 0]
  /\ readers = [r \in Readers |-> IdleReader]
  /\ refreshers = [f \in Refreshers |-> IdleRefresher]

\* some Refresh has returned nil
Refreshed == \E f \in Refreshers : refreshers[f].pc = "done" /\ refreshers[f].result = "ok"

\* the reader's context is cancelled or its deadline passes, before the call
\* or during it
CancelReader(r) ==
  /\ readers[r].pc \notin {"done", "goexit"}
  /\ ~readers[r].ctxDone
  /\ Cardinality({q \in Readers : readers[q].ctxDone}) < MaxReaderCancel
  /\ readers' = [readers EXCEPT ![r].ctxDone = TRUE]
  /\ UNCHANGED <<notOmc, indexM, indexGoexit, indexMu, refreshers>>

\* Get(ctx, sk) / GetMulti(ctx, sks), up to the select of LockCtx: the
\* RLocker has no TryLock, so a goroutine is started to take the read lock
IndexCall(r) ==
  /\ readers[r].pc = "idle"
  /\ \A q \in Readers : q < r => readers[q].pc # "idle"
  /\ \E call \in {[kind |-> "Get", sks |-> <<sk>>] : sk \in SecondaryKeys}
                 \cup {[kind |-> "GetMulti", sks |-> sks] : sks \in IndexBatches} :
       readers' = [readers EXCEPT ![r] =
                     [@ EXCEPT !.pc = "LockCtx", !.kind = call.kind, !.sks = call.sks,
                               !.g = "rlocking", !.after = Refreshed]]
  /\ UNCHANGED <<notOmc, indexM, indexGoexit, indexMu, refreshers>>

\* RWMutex.RLock returns when no writer holds the lock or waits for it
CanRLock_Always(lock) == TRUE
CanRLock(lock) == lock.w = 0

\* the started goroutine: l.Locker.Lock() of LockCtx, or c.L.Lock() at the
\* end of Cond.Wait, and close(lock)
IndexRLock(r) ==
  /\ readers[r].g \in {"rlocking", "notified"}
  /\ CanRLock(indexMu)
  /\ indexMu' = [indexMu EXCEPT !.r = @ \cup {r}]
  /\ readers' = [readers EXCEPT ![r].g = "held"]
  /\ UNCHANGED <<notOmc, indexM, indexGoexit, refreshers>>

\* the goroutine started by WaitCtx: Cond.Wait joins the notify list and
\* releases the read lock
IndexCondWait(r) ==
  /\ readers[r].g = "spawned"
  /\ indexMu' = [indexMu EXCEPT !.r = @ \ {r}]
  /\ readers' = [readers EXCEPT ![r].g = "waiting"]
  /\ UNCHANGED <<notOmc, indexM, indexGoexit, refreshers>>

\* LockCtx / WaitCtx, select case <-ctx.Done(): the call returns ctx.Err()
\* and leaves a helper goroutine that unlocks once the lock is taken
IndexSelectDone(r) ==
  /\ readers[r].pc \in {"LockCtx", "WaitCtx"}
  /\ readers[r].ctxDone
  /\ readers' = [readers EXCEPT ![r] =
                   [@ EXCEPT !.pc = "done", !.result = "canceled", !.abandoned = TRUE]]
  /\ UNCHANGED <<notOmc, indexM, indexGoexit, indexMu, refreshers>>

\* the helper goroutine: <-lock; Unlock()
IndexHelperUnlock_Forgets(r) ==
  /\ readers[r].abandoned
  /\ readers[r].g = "held"
  /\ readers' = [readers EXCEPT ![r].g = "none"]
  /\ UNCHANGED <<notOmc, indexM, indexGoexit, indexMu, refreshers>>
IndexHelperUnlock(r) ==
  /\ readers[r].abandoned
  /\ readers[r].g = "held"
  /\ indexMu' = [indexMu EXCEPT !.r = @ \ {r}]
  /\ readers' = [readers EXCEPT ![r].g = "none"]
  /\ UNCHANGED <<notOmc, indexM, indexGoexit, refreshers>>

\* where the loop head sends the call: for i.m == nil { if i.goexit {
\* runtime.Goexit() }; WaitCtx }
AfterCheck_NoWait(snapshot, exited) == "read"
AfterCheck_NoGoexit(snapshot, exited) == IF snapshot # NilMap THEN "read" ELSE "WaitCtx"
AfterCheck(snapshot, exited) ==
  IF snapshot # NilMap THEN "read"
  ELSE IF exited THEN "goexit"
  ELSE "WaitCtx"

\* LockCtx / WaitCtx, select case <-lock, and the loop head, under the read
\* lock; the thread-exit happens before the unlock is deferred, so the read
\* lock stays taken
IndexSelectLock(r) ==
  /\ readers[r].pc \in {"LockCtx", "WaitCtx"}
  /\ readers[r].g = "held"
  /\ LET to == AfterCheck(indexM, indexGoexit)
     IN readers' = [readers EXCEPT ![r] =
                      [@ EXCEPT !.pc = to,
                                !.g = IF to = "WaitCtx" THEN "spawned" ELSE @]]
  /\ UNCHANGED <<notOmc, indexM, indexGoexit, indexMu, refreshers>>

\* what is copied out for sk: nothing for a key the map has no list for
\* (a nil map has none), else the list and the snapshot it comes from
CopyOut(snapshot, sk) ==
  IF snapshot = NilMap
  THEN [sk |-> sk, pks |-> NoPks, by |-> 0]
  ELSE [sk |-> sk, pks |-> snapshot.map[sk], by |-> snapshot.by]

\* Get: copy(pks, i.m[sk]); GetMulti: one round of the loop over sks; after
\* the last the call returns, with the deferred i.rl.Unlock()
IndexRead(r) ==
  /\ readers[r].pc = "read"
  /\ LET i == readers[r].i
         last == i = Len(readers[r].sks)
     IN /\ readers' = [readers EXCEPT ![r] =
                         [@ EXCEPT !.lists = Append(@, CopyOut(indexM, readers[r].sks[i])),
                                   !.i = i + 1,
                                   !.pc = IF last THEN "done" ELSE "read",
                                   !.g = IF last THEN "none" ELSE @,
                                   !.result = IF last THEN "data" ELSE @]]
        /\ indexMu' = IF last THEN [indexMu EXCEPT !.r = @ \ {r}] ELSE indexMu
  /\ UNCHANGED <<notOmc, indexM, indexGoexit, refreshers>>

\* Cond.Broadcast: every goroutine in Cond.Wait is woken
Broadcast_None(rs) == rs
Broadcast(rs) ==
  [r \in Readers |-> IF rs[r].g = "waiting" THEN [rs[r] EXCEPT !.g = "notified"] ELSE rs[r]]

\* where Refresh goes after dds.Invoke: it returns the error of the source
\* (a panic is handed back as an error), runs OnGoexit, or goes on to
\* install the map
AfterGetAll_InstallOnError(o) ==
  CASE o.kind = "goexit" -> "OnGoexit"
    [] OTHER -> "Lock"
AfterGetAll(o) ==
  CASE o.kind = "goexit" -> "OnGoexit"
    [] o.kind = "panic" \/ o.err -> "done"
    [] OTHER -> "Lock"

\* Refresh(ctx): the call of source.GetAll within the sandwich
RefreshGetAll(f) ==
  /\ refreshers[f].pc = "idle"
  /\ \A e \in Refreshers : e < f => refreshers[e].pc # "idle"
  /\ \E o \in GetAllOutcomes :
       refreshers' = [refreshers EXCEPT ![f] =
                        [@ EXCEPT !.pc = AfterGetAll(o),
                                  !.out = IF o.kind = "return" /\ o.err THEN "error"
                                          ELSE o.kind,
                                  !.map = o.map,
                                  !.result = IF AfterGetAll(o) = "done" THEN "error" ELSE "none"]]
  /\ UNCHANGED <<notOmc, indexM, indexGoexit, indexMu, readers>>

\* i.mu.Lock(), first half: the writer shuts new readers out
RefreshLock(f) ==
  /\ refreshers[f].pc \in {"Lock", "OnGoexit"}
  /\ indexMu.w = 0
  /\ indexMu' = [indexMu EXCEPT !.w = f]
  /\ refreshers' = [refreshers EXCEPT ![f].pc = IF @ = "Lock" THEN "install" ELSE "exit"]
  /\ UNCHANGED <<notOmc, indexM, indexGoexit, readers>>

\* RWMutex.Lock returns when every reader has released the lock
CanLock_Always(lock) == TRUE
CanLock(lock) == lock.r = {}

\* i.mu.Lock(), second half, and i.m = m; i.sc.Broadcast(); return nil with
\* the deferred i.mu.Unlock()
RefreshInstall(f) ==
  /\ refreshers[f].pc = "install"
  /\ CanLock(indexMu)
  /\ indexM' = IF refreshers[f].map = NilMap THEN NilMap ELSE Snapshot(f, refreshers[f].map)
  /\ readers' = Broadcast(readers)
  /\ indexMu' = [indexMu EXCEPT !.w = 0]
  /\ refreshers' = [refreshers EXCEPT ![f] = [@ EXCEPT !.pc = "done", !.result = "ok"]]
  /\ UNCHANGED <<notOmc, indexGoexit>>

\* OnGoexit: i.goexit = true; i.sc.Broadcast(), under the write lock; the
\* thread-exit then goes on
RefreshOnGoexit(f) ==
  /\ refreshers[f].pc = "exit"
  /\ CanLock(indexMu)
  /\ indexGoexit' = TRUE
  /\ readers' = Broadcast(readers)
  /\ indexMu' = [indexMu EXCEPT !.w = 0]
  /\ refreshers' = [refreshers EXCEPT ![f].pc = "goexit"]
  /\ UNCHANGED <<notOmc, indexM>>

\* ---- composite indexes, batched (OrIndex.GetMulti, AndIndex.GetMulti) ----
\* what a side index holds: for every secondary key a list, or none
SideLists == PkSeqs \ {<<>>}
SideContents == [SecondaryKeys -> {NoPks} \cup {Pks(l) : l \in SideLists}]
NoContents == [sk \in SecondaryKeys |-> NoPks]
KeysBatches == UNION {[1..n -> CompositeKeys] : n \in 1..MaxKeysBatch}

\* MaybeKey.Iter: the key, if there is one
Iter(k) == IF k.Empty THEN <<>> ELSE <<k.Key>>

\* iterutil.FlatMap over the keys of the batch, side by side
RECURSIVE FlatMapIter(_, _, _)
FlatMapIter(keys, side, i) ==
  IF i > Len(keys) THEN <<>>
  ELSE Iter(IF side = "Left" THEN keys[i].Left ELSE keys[i].Right)
       \o FlatMapIter(keys, side, i + 1)

\* iterutil.Uniq: the first occurrence of every value, in input order
RECURSIVE Uniq(_, _, _)
Uniq(seq, i, seen) ==
  IF i > Len(seq) THEN <<>>
  ELSE IF seq[i] \in seen THEN Uniq(seq, i + 1, seen)
       ELSE <<seq[i]>> \o Uniq(seq, i + 1, seen \cup {seq[i]})

\* GetMulti of a side index over its contents: the lists of the asked keys
\* that have one
SideGetMulti(contents, sks) ==
  [sk \in SecondaryKeys |-> IF sk \in Range(sks) THEN contents[sk] ELSE NoPks]
\* Get of a side index over its contents
SideGet(contents, k) ==
  IF k.Empty \/ contents[k.Key] = NoPks THEN NoAnswer
  ELSE [pks |-> contents[k.Key].pks, err |-> FALSE]

\* var left []PrimaryKey; if !key.Left.Empty { if pks, ok := leftPks[...] }
ListFor(k, sidePks) ==
  IF k.Empty \/ sidePks[k.Key] = NoPks THEN <<>> ELSE sidePks[k.Key].pks

\* OrIndex.GetMulti, the entry made for one key: none when both lists are
\* empty
OrIndexMultiEntry(key, left, right) ==
  LET total == Len(left) + Len(right)
  IN IF total = 0 THEN NoPks
     ELSE IF total = Len(left) THEN Pks(left)
     ELSE IF total = Len(right) THEN Pks(right)
     ELSE Pks(Union(left, right))

\* AndIndex.GetMulti, the entry made for one key: none when both lists are
\* empty, nor when one is empty and the other key is present
AndIndexMultiEntry_OneSideIsEnough(key, left, right) ==
  LET total == Len(left) + Len(right)
  IN IF total = 0 THEN NoPks
     ELSE IF total = Len(left) THEN Pks(left)
     ELSE IF total = Len(right) THEN Pks(right)
     ELSE Pks(Intersection(left, right))
AndIndexMultiEntry(key, left, right) ==
  LET total == Len(left) + Len(right)
  IN IF total = 0 THEN NoPks
     ELSE IF total = Len(left) THEN (IF key.Right.Empty THEN Pks(left) ELSE NoPks)
     ELSE IF total = Len(right) THEN (IF key.Left.Empty THEN Pks(right) ELSE NoPks)
     ELSE Pks(Intersection(left, right))

\* GetMulti of either composite index over the contents of the two side
\* indexes; fails names the side index whose GetMulti returns an error
CompositeGetMulti(op, keys, leftContents, rightContents, fails) ==
  LET leftSks == Uniq(FlatMapIter(keys, "Left", 1), 1, {})
      rightSks == Uniq(FlatMapIter(keys, "Right", 1), 1, {})
      askLeft == Len(leftSks) # 0
      leftErr == askLeft /\ fails = "Left"
      askRight == Len(rightSks) # 0 /\ ~leftErr
      rightErr == askRight /\ fails = "Right"
      leftPks == IF askLeft THEN SideGetMulti(leftContents, leftSks) ELSE NoContents
      rightPks == IF askRight THEN SideGetMulti(rightContents, rightSks) ELSE NoContents
      entry(key) ==
        IF op = "OrIndex.GetMulti"
        THEN OrIndexMultiEntry(key, ListFor(key.Left, leftPks), ListFor(key.Right, rightPks))
        ELSE AndIndexMultiEntry(key, ListFor(key.Left, leftPks), ListFor(key.Right, rightPks))
  IN [op |-> op, keys |-> keys, left |-> leftContents, right |-> rightContents,
      leftSks |-> IF askLeft THEN leftSks ELSE <<>>,
      rightSks |-> IF askRight THEN rightSks ELSE <<>>,
      err |-> leftErr \/ rightErr,
      result |-> IF leftErr \/ rightErr THEN <<>>
                 ELSE [key \in {k \in Range(keys) : entry(k) # NoPks} |-> entry(key).pks]]

MultiInit ==
  multi = [op |-> "none", keys |-> <<>>, left |-> NoContents, right |-> NoContents,
           leftSks |-> <<>>, rightSks |-> <<>>, err |-> FALSE, result |-> <<>>]

\* one batched lookup is made, of either index; the side indexes hold
\* anything, or one of them fails
CompositeMulti(op) ==
  /\ multi.op = "none"
  /\ \E keys \in KeysBatches :
       \/ \E l \in SideContents, r \in SideContents :
            multi' = CompositeGetMulti(op, keys, l, r, "none")
       \/ \E side \in {"Left", "Right"} :
            multi' = CompositeGetMulti(op, keys, NoContents, NoContents, side)
  /\ UNCHANGED <<notIndex, lookup>>

OrIndexGetMulti == CompositeMulti("OrIndex.GetMulti")
AndIndexGetMulti == CompositeMulti("AndIndex.GetMulti")

\* ---- indexed cache (IndexedLoadingCache) ----
\* what an index may answer a lookup with: for every secondary key a list of
\* primary keys, or none
IndexLists == {<<>>} \cup Batches
IndexAnswers == [SecondaryKeys -> {NoPks} \cup {Pks(l) : l \in IndexLists}]
NoAnswers == [sk \in SecondaryKeys |-> NoPks]
\* the secondary keys a batched lookup is made by
SksBatches == {[i \in 1..n |-> i] : n \in 1..NumSecondaryKeys}
\* the secondary keys that have an entry in the answer m: len(m) is their
\* number
Answered(m) == {sk \in SecondaryKeys : m[sk] # NoPks}
\* the orders in which `for sk, pks := range m` may visit the entries of m
RangeOrders(m) ==
  {o \in UNION {[1..n -> Answered(m)] : n \in 0..NumSecondaryKeys} :
     /\ Len(o) = Cardinality(Answered(m))
     /\ Range(o) = Answered(m)}

\* the pairs the two loops over m visit, in order
RECURSIVE Refs(_, _, _)
Refs(m, order, i) ==
  IF i > Len(order) THEN <<>>
  ELSE [j \in 1..Len(m[order[i]].pks) |-> [sk |-> order[i], pk |-> m[order[i]].pks[j]]]
       \o Refs(m, order, i + 1)

\* keys: every primary key once, in the order of its first visit
FindKeys_LastFirst(refs) ==
  LET ks == Uniq([j \in DOMAIN refs |-> refs[j].pk], 1, {})
  IN [j \in DOMAIN ks |-> ks[Len(ks) + 1 - j]]
FindKeys(refs) == Uniq([j \in DOMAIN refs |-> refs[j].pk], 1, {})
\* rm[pk]: the secondary keys whose lists name pk, once for every time
RECURSIVE SksOf(_, _, _)
SksOf(refs, pk, j) ==
  IF j > Len(refs) THEN <<>>
  ELSE (IF refs[j].pk = pk THEN <<refs[j].sk>> ELSE <<>>) \o SksOf(refs, pk, j + 1)

NoFind == [op |-> "none", sks |-> <<>>, m |-> NoAnswers, keys |-> <<>>,
           rm |-> [pk \in Keys |-> <<>>]]
FindInit == finds = [c \in Callers |-> NoFind]

CanFind(c) ==
  /\ CanCall(c)
  /\ Cardinality({d \in Callers : finds[d].op # "none"}) < MaxFind

\* FindBySecondaryKey(ctx, sk): index.Get fails, answers with no primary key,
\* or answers with a list, which is handed to GetOrLoadMulti, whose return is
\* the call's return
FindBySecondaryKey(c) ==
  /\ CanFind(c)
  /\ \E sk \in SecondaryKeys :
       \/ /\ finds' = [finds EXCEPT ![c] =
                         [NoFind EXCEPT !.op = "FindBySecondaryKey", !.sks = <<sk>>]]
          /\ \/ callers' = [callers EXCEPT ![c] =
                              [@ EXCEPT !.pc = "done", !.result = Err("index", 0)]]
             \/ callers' = [callers EXCEPT ![c] =
                              [@ EXCEPT !.pc = "done", !.result = Entries(<<>>)]]
       \/ \E pks \in Batches :
            /\ finds' = [finds EXCEPT ![c] =
                           [NoFind EXCEPT !.op = "FindBySecondaryKey", !.sks = <<sk>>,
                                          !.m = [NoAnswers EXCEPT ![sk] = Pks(pks)],
                                          !.keys = pks]]
            /\ GetOrLoadMultiOf(c, pks)
  /\ UNCHANGED <<memVars, indexVars, omcVars, policyVars, storage, waitlists, chans, tasks,
               crashed>>

\* FindBySecondaryKeys(ctx, sks), up to the return of GetOrLoadMulti:
\* index.GetMulti fails, answers with an empty map, or answers with lists,
\* whose primary keys are collected and handed to GetOrLoadMulti
FindBySecondaryKeys(c) ==
  /\ CanFind(c)
  /\ \E sks \in SksBatches :
       \/ /\ finds' = [finds EXCEPT ![c] =
                         [NoFind EXCEPT !.op = "FindBySecondaryKeys", !.sks = sks]]
          /\ \/ callers' = [callers EXCEPT ![c] =
                              [@ EXCEPT !.pc = "done", !.result = Err("index", 0)]]
             \/ callers' = [callers EXCEPT ![c] =
                              [@ EXCEPT !.pc = "done", !.result = Entries(<<>>)]]
       \/ \E m \in IndexAnswers :
            /\ Answered(m) # {}
            /\ Answered(m) \subseteq Range(sks)
            /\ \E order \in RangeOrders(m) :
                 LET refs == Refs(m, order, 1)
                     keys == FindKeys(refs)
                 IN /\ finds' = [finds EXCEPT ![c] =
                                   [NoFind EXCEPT !.op = "FindBySecondaryKeys", !.sks = sks,
                                                  !.m = m, !.keys = keys,
                                                  !.rm = [pk \in Keys |-> SksOf(refs, pk, 1)]]]
                    /\ GetOrLoadMultiOf(c, keys)
  /\ UNCHANGED <<memVars, indexVars, omcVars, policyVars, storage, waitlists, chans, tasks,
               crashed>>

\* the entry appended to result[sk] for receiver i (0 is the first) of the
\* entry at position p: the entry itself, or a copy with the value cloned
Attached_Shared(c, entry, p, i) == entry
Attached(c, entry, p, i) ==
  IF i = 0 THEN entry
  ELSE Entry(entry.key, CloneValue(entry.value, Obj("FindBySecondaryKeys", <<c, p, i>>)))

\* what the loop over rm[entry.Key] appends to result[sk] for one entry
RECURSIVE AttachedTo(_, _, _, _, _, _)
AttachedTo(c, sk, entry, p, receivers, i) ==
  IF i >= Len(receivers) THEN <<>>
  ELSE (IF receivers[i + 1] = sk THEN <<Attached(c, entry, p, i)>> ELSE <<>>)
       \o AttachedTo(c, sk, entry, p, receivers, i + 1)

\* result[sk] after the loop over entries[p..]; nil entries are skipped
RECURSIVE ResultList(_, _, _, _, _)
ResultList(c, sk, entries, rm, p) ==
  IF p > Len(entries) THEN <<>>
  ELSE (IF entries[p] = Nil THEN <<>>
        ELSE AttachedTo(c, sk, entries[p], p, rm[entries[p].key], 0))
       \o ResultList(c, sk, entries, rm, p + 1)

\* what FindBySecondaryKeys returns once GetOrLoadMulti has returned: its
\* error, or the map built from its entries (a secondary key without an
\* entry in the map has the empty list here)
FindBySecondaryKeysReturn(c) ==
  IF callers[c].result.kind = "err" THEN callers[c].result
  ELSE [kind |-> "map",
        map |-> [sk \in SecondaryKeys |->
                   ResultList(c, sk, callers[c].result.entries, finds[c].rm, 1)]]

\* ---- expiration policies (expiration) ----
\* instants and durations are whole numbers of one unit; Percentage and the
\* draw of rand.Float64 are counted in steps of 1/NumFractions, the draw
\* being below 1
Instants == 0..MaxInstant
Durations == 0..MaxDuration
Percentages == 0..NumFractions
Draws == 0..(NumFractions - 1)

\* time.Time.After
After(t, u) == t > u

\* GeneralExpirationPolicy.IsExpired: !expiresAt.After(now)
GeneralIsExpired(now, expiresAt) == ~After(expiresAt, now)
\* NeverExpirationPolicy.IsExpired
NeverIsExpired(now, expiresAt) == FALSE
\* EarlyExpirationPolicy.IsExpired, draw being what p.randFloat64() returns
EarlyIsExpired(p, draw, now, expiresAt) ==
  IF draw > p.Percentage THEN After(now, expiresAt)
  ELSE After(now + p.Duration, expiresAt)

NoPolicy == [Duration |-> 0, Percentage |-> 0]
PolicyInit ==
  expired = [policy |-> "none", p |-> NoPolicy, draw |-> 0, now |-> 0, expiresAt |-> 0,
             verdict |-> FALSE]

\* one call of IsExpired of each policy
GeneralExpirationPolicy_IsExpired ==
  /\ \E now \in Instants, expiresAt \in Instants :
       expired' = [policy |-> "General", p |-> NoPolicy, draw |-> 0, now |-> now,
                   expiresAt |-> expiresAt, verdict |-> GeneralIsExpired(now, expiresAt)]
  /\ UNCHANGED notPolicy
NeverExpirationPolicy_IsExpired ==
  /\ \E now \in Instants, expiresAt \in Instants :
       expired' = [policy |-> "Never", p |-> NoPolicy, draw |-> 0, now |-> now,
                   expiresAt |-> expiresAt, verdict |-> NeverIsExpired(now, expiresAt)]
  /\ UNCHANGED notPolicy
EarlyExpirationPolicy_IsExpired ==
  /\ \E now \in Instants, expiresAt \in Instants, d \in Durations, pc \in Percentages,
        draw \in Draws :
       LET p == [Duration |-> d, Percentage |-> pc]
       IN expired' = [policy |-> "Early", p |-> p, draw |-> draw, now |-> now,
                      expiresAt |-> expiresAt,
                      verdict |-> EarlyIsExpired(p, draw, now, expiresAt)]
  /\ UNCHANGED notPolicy

\* ---- specification ----
Init ==
  LoaderInit /\ MemInit /\ IndexInit /\ MultiInit /\ OmcInit /\ FindInit /\ PolicyInit

Next ==
  \/ \E c \in Callers : Cancel(c)
  \/ \E c \in Callers : GetOrLoad(c)
  \/ \E c \in Callers : GetOrLoadMulti(c)
  \/ \E c \in Callers : registerKey(c)
  \/ \E c \in Callers : registerKeys(c)
  \/ \E t \in 1..Len(tasks) : loadKeysAndStore_fetch(t)
  \/ \E t \in 1..Len(tasks) : loadKeysAndStore_store(t)
  \/ \E t \in 1..Len(tasks) : sendEntries(t)
  \/ \E t \in 1..Len(tasks) : throwErrors(t)
  \/ \E c \in Callers : LoadAndStore_recv(c)
  \/ \E c \in Callers : awaitChannels_recv(c)
  \/ \E c \in Callers : ctxDone_return(c)
  \/ \E c \in Callers : drain(c)

Spec == Init /\ [][Next]_vars

\* the same calls, the context of the first caller being the one that may be
\* cancelled, under a scheduler that does not leave the runnable goroutines
\* unrun for ever: a background task goes on to its next step (the source
\* and the storage return), and a waiting caller whose channel holds a
\* message receives; no step of the loader can be taken twice, so this lets
\* every one of them run
DeliveryNext ==
  \/ Cancel(1)
  \/ \E c \in Callers : GetOrLoad(c)
  \/ \E c \in Callers : GetOrLoadMulti(c)
  \/ \E c \in Callers : registerKey(c)
  \/ \E c \in Callers : registerKeys(c)
  \/ \E t \in 1..Len(tasks) : loadKeysAndStore_fetch(t)
  \/ \E t \in 1..Len(tasks) : loadKeysAndStore_store(t)
  \/ \E t \in 1..Len(tasks) : sendEntries(t)
  \/ \E t \in 1..Len(tasks) : throwErrors(t)
  \/ \E c \in Callers : LoadAndStore_recv(c)
  \/ \E c \in Callers : awaitChannels_recv(c)
  \/ \E c \in Callers : ctxDone_return(c)
  \/ \E c \in Callers : drain(c)

TaskStep(t) ==
  \/ loadKeysAndStore_fetch(t)
  \/ loadKeysAndStore_store(t)
  \/ sendEntries(t)
  \/ throwErrors(t)
Receive(c) == LoadAndStore_recv(c) \/ awaitChannels_recv(c)
Runnable ==
  \/ \E t \in 1..Len(tasks) : TaskStep(t)
  \/ \E c \in Callers : Receive(c)
DeliverySpec == Init /\ [][DeliveryNext]_vars /\ WF_vars(Runnable)

\* GetOrLoad calls alone, over a storage whose entries expire
ExpiryNext ==
  \/ \E c \in Callers : GetOrLoad(c)
  \/ \E c \in Callers : registerKey(c)
  \/ \E t \in 1..Len(tasks) : loadKeysAndStore_fetch(t)
  \/ \E t \in 1..Len(tasks) : loadKeysAndStore_store(t)
  \/ \E t \in 1..Len(tasks) : sendEntries(t)
  \/ \E t \in 1..Len(tasks) : throwErrors(t)
  \/ \E c \in Callers : LoadAndStore_recv(c)
  \/ \E k \in Keys : Expire(k)

ExpirySpec == Init /\ [][ExpiryNext]_vars

\* the in-memory storage under concurrent calls
MemNext ==
  \/ \E o \in Ops : MemCall(o)
  \/ \E o \in Ops : MemLock(o)
  \/ \E o \in Ops : MemRead(o)
  \/ \E o \in Ops : MemWrite(o)
  \/ \E o \in Ops : MemUnlock(o)

MemSpec == Init /\ [][MemNext]_vars

\* the same, every goroutine that can take its next step taking it in the
\* end (the Go scheduler runs every runnable goroutine)
MemLiveSpec == MemSpec /\ \A o \in Ops : WF_vars(MemStep(o))

\* the in-memory storage under concurrent single-key calls
MemKeyNext ==
  \/ \E o \in KeyOps : MemCallKey(o)
  \/ \E o \in KeyOps : MemLock(o)
  \/ \E o \in KeyOps : MemRead(o)
  \/ \E o \in KeyOps : MemWrite(o)
  \/ \E o \in KeyOps : MemUnlock(o)

MemKeySpec == Init /\ [][MemKeyNext]_vars

\* lookups in the composite indexes
IndexNext ==
  \/ OrIndexGet
  \/ AndIndexGet

IndexSpec == Init /\ [][IndexNext]_vars

\* batched lookups in the composite indexes
IndexMultiNext ==
  \/ OrIndexGetMulti
  \/ AndIndexGetMulti

IndexMultiSpec == Init /\ [][IndexMultiNext]_vars

\* a lookup by secondary key in the indexed cache, next to lookups by primary
\* key
FindNext ==
  \/ \E c \in Callers : FindBySecondaryKey(c)
  \/ \E c \in Callers : FindBySecondaryKeys(c)
  \/ \E c \in Callers : GetOrLoad(c)
  \/ \E c \in Callers : registerKey(c)
  \/ \E c \in Callers : registerKeys(c)
  \/ \E t \in 1..Len(tasks) : loadKeysAndStore_fetch(t)
  \/ \E t \in 1..Len(tasks) : loadKeysAndStore_store(t)
  \/ \E t \in 1..Len(tasks) : sendEntries(t)
  \/ \E t \in 1..Len(tasks) : throwErrors(t)
  \/ \E c \in Callers : LoadAndStore_recv(c)
  \/ \E c \in Callers : awaitChannels_recv(c)

FindSpec == Init /\ [][FindNext]_vars

\* calls of the expiration policies
PolicyNext ==
  \/ GeneralExpirationPolicy_IsExpired
  \/ NeverExpirationPolicy_IsExpired
  \/ EarlyExpirationPolicy_IsExpired

PolicySpec == Init /\ [][PolicyNext]_vars

\* the on-memory index under concurrent Get, GetMulti and Refresh calls
OmcNext ==
  \/ \E r \in Readers : CancelReader(r)
  \/ \E r \in Readers : IndexCall(r)
  \/ \E r \in Readers : IndexRLock(r)
  \/ \E r \in Readers : IndexCondWait(r)
  \/ \E r \in Readers : IndexSelectLock(r)
  \/ \E r \in Readers : IndexSelectDone(r)
  \/ \E r \in Readers : IndexHelperUnlock(r)
  \/ \E r \in Readers : IndexRead(r)
  \/ \E f \in Refreshers : RefreshGetAll(f)
  \/ \E f \in Refreshers : RefreshLock(f)
  \/ \E f \in Refreshers : RefreshInstall(f)
  \/ \E f \in Refreshers : RefreshOnGoexit(f)

OmcSpec == Init /\ [][OmcNext]_vars

\* the same, every goroutine that can take its next step taking it in the
\* end: the calling goroutine of a Get or GetMulti, the goroutine LockCtx
\* or WaitCtx started, the helper goroutine, and a Refresh once it is called
ReaderMain(r) == IndexSelectLock(r) \/ IndexSelectDone(r) \/ IndexRead(r)
ReaderLocker(r) == IndexRLock(r) \/ IndexCondWait(r)
RefreshStep(f) == RefreshLock(f) \/ RefreshInstall(f) \/ RefreshOnGoexit(f)
OmcLiveSpec ==
  /\ OmcSpec
  /\ \A r \in Readers : WF_vars(ReaderMain(r)) /\ WF_vars(ReaderLocker(r))
                          /\ WF_vars(IndexHelperUnlock(r))
  /\ \A f \in Refreshers : WF_vars(RefreshStep(f))

\* ---- what the claims speak of ----
ChanIds == 1..Len(chans)
TaskIds == 1..Len(tasks)

\* the channels that wait for task t: those registered for one of its keys
\* while it was in flight
ChansOfTask(t) == {ch \in ChanIds : chans[ch].task = t}
Waiting(ch) == ch \in Range(waitlists[chans[ch].key])
Done(t) == tasks[t].pc = "done"

\* what a caller is owed for key k by a fetch that returned and was stored
Fetched(t, k) ==
  LET e == tasks[t].entries[CHOOSE i \in 1..Len(tasks[t].keys) : tasks[t].keys[i] = k]
  IN IF e = Nil THEN Nil ELSE IF e.negative THEN Nil ELSE Entry(k, e.value)
FetchedAndStored(t) == tasks[t].out = "ok" /\ tasks[t].storeOut # "err" /\ tasks[t].storeOut # "panic"

\* C1: for every key at most one background fetch is in flight, and one is in
\* flight exactly while the key's waitlist is non-empty: only the
\* registration that finds the list empty launches a fetch, every other one
\* only appends its channel
C1_OneFetchInFlight ==
  \A k \in Keys :
    /\ Cardinality(InFlight(k)) <= 1
    /\ (InFlight(k) # {} <=> waitlists[k] # <<>>)

C1_Witness ==
  \E k \in Keys : Len(waitlists[k]) >= 2 /\ Cardinality(InFlight(k)) = 1

\* the callers of GetOrLoad for key k, when nobody asks for k in a batch
GetOrLoadCallers(k) == {c \in Callers : callers[c].op = "single" /\ callers[c].keys = <<k>>}
OnlyGetOrLoad(k) == \A c \in Callers : callers[c].op = "multi" => k \notin Range(callers[c].keys)

\* the source was asked for k at most once, and every caller of GetOrLoad(k)
\* that returned (not on cancellation, nor on a failed storage lookup) has
\* what that one fetch returned, when it returned entries that were stored
OnceAndShared(k) ==
  /\ SrcCalls(k) <= 1
  /\ \A c \in GetOrLoadCallers(k) :
       (callers[c].pc = "done" /\ callers[c].result # CtxErr(c)
                               /\ callers[c].result # Err("get", 0))
       => /\ SrcCalls(k) = 1
          /\ \A t \in TasksOf(k) :
               FetchedAndStored(t) => EqualByValue(callers[c].result, Fetched(t, k))

\* every fetch for k so far returned a value entry and stored it
AllFetchesSucceed(k) ==
  \A t \in TasksOf(k) :
    tasks[t].out # "none" =>
      /\ tasks[t].out = "ok" /\ tasks[t].storeOut \in {"none", "ok"}
      /\ Fetched(t, k) # Nil

\* C2 (as claimed): if several callers invoke GetOrLoad for the same uncached
\* key and each call starts before the source fetch for the key has returned,
\* the source is asked once in total and every non-cancelled caller receives
\* a result equal in value to the fetched entry (read for a source that
\* returns an entry and a storage that stores it)
C2_Original ==
  \A k \in Keys :
    (/\ OnlyGetOrLoad(k)
     /\ Cardinality(GetOrLoadCallers(k)) >= 2
     /\ \A c \in GetOrLoadCallers(k) : callers[c].early
     /\ AllFetchesSucceed(k))
    => OnceAndShared(k)

\* C2 (amended): the same, for callers each of which, if it reaches the
\* loader at all, registers on the key's waitlist before the fetch for the
\* key has fanned out its result
C2_OnceWhenRegisteredBeforeFanOut ==
  \A k \in Keys :
    (/\ OnlyGetOrLoad(k)
     /\ Cardinality(GetOrLoadCallers(k)) >= 2
     /\ \A c \in GetOrLoadCallers(k) : ~callers[c].lateReg)
    => OnceAndShared(k)

C2_Witness ==
  \E k \in Keys :
    /\ OnlyGetOrLoad(k)
    /\ Cardinality(GetOrLoadCallers(k)) >= 2
    /\ SrcCalls(k) = 1
    /\ \A c \in GetOrLoadCallers(k) :
         /\ callers[c].pc = "done"
         /\ Len(callers[c].chs) = 1
         /\ ~callers[c].lateReg
         /\ callers[c].result.kind = "entry"

\* C3 (as claimed): when a fetch has completed in any way, every channel
\* that waited for it has been sent exactly one result and closed, in
\* registration order, and none of them is left in a waitlist.  A task that
\* died of a panic in the storage call has completed too.
Completed(t) == tasks[t].pc \in {"done", "crashed"}

C3_Claim ==
  \A t \in TaskIds :
    Completed(t) =>
      /\ \A ch \in ChansOfTask(t) :
           chans[ch].sends = 1 /\ chans[ch].closed /\ ~Waiting(ch)
      /\ \A ch1, ch2 \in ChansOfTask(t) :
           (chans[ch1].key = chans[ch2].key /\ ch1 < ch2)
           => chans[ch1].order < chans[ch2].order
      /\ \A k \in Range(tasks[t].keys) :
           waitlists[k] # <<>> => InFlight(k) # {}

\* C4: cancelling a caller's context never reaches the shared fetch: no
\* waiter is ever sent a cancellation error, a fetch that was stored leaves
\* its entries in storage until its fan-out, and every waiter of a fetch that
\* returned and was stored is sent the fetched entry
C4_CancelNeverAbortsFetch ==
  /\ \A ch \in ChanIds :
       chans[ch].sends > 0 =>
         /\ \A c \in Callers : chans[ch].msg # CtxErr(c)
         /\ (chans[ch].task \in TaskIds /\ FetchedAndStored(chans[ch].task))
            => EqualByValue(chans[ch].msg, Fetched(chans[ch].task, chans[ch].key))
  /\ \A t \in TaskIds :
       (tasks[t].pc = "send" /\ tasks[t].storeOut = "ok") =>
         \A i \in 1..Len(tasks[t].keys) :
           tasks[t].entries[i] # Nil => storage[tasks[t].keys[i]] = tasks[t].entries[i]

C4_Witness ==
  \E c1, c2 \in Callers :
    /\ c1 # c2
    /\ callers[c1].pc = "done" /\ callers[c1].result = CtxErr(c1)
    /\ callers[c2].pc = "done" /\ callers[c2].result.kind = "entry"
    /\ Len(callers[c1].chs) = 1 /\ Len(callers[c2].chs) = 1
    /\ chans[callers[c1].chs[1]].task = chans[callers[c2].chs[1]].task
    /\ storage[callers[c2].result.key] # Nil

\* C5: a call that returned its context's error while a channel of it had
\* not been sent to left that channel in the waitlist; and a call that waits
\* with its context done can return at once, whatever the fetch is doing
C5_CancelledWaiterStaysListed ==
  \A c \in Callers :
    /\ (callers[c].pc = "done" /\ callers[c].result = CtxErr(c)) =>
         \A j \in 1..Len(callers[c].chs) :
           chans[callers[c].chs[j]].sends = 0 => Waiting(callers[c].chs[j])
    /\ (callers[c].pc = "await" /\ callers[c].ctxDone /\ ~crashed) =>
         ENABLED ctxDone_return(c)

C5_Witness ==
  \E c \in Callers :
    /\ callers[c].pc = "done" /\ callers[c].result = CtxErr(c)
    /\ callers[c].op = "multi" /\ Len(callers[c].chs) = 2
    /\ \A j \in 1..2 :
         /\ Waiting(callers[c].chs[j])
         /\ tasks[chans[callers[c].chs[j]].task].pc = "fetch"

\* C6: once the task of a fetch whose source panicked is done, every channel
\* that waited for it has been sent the recovered panic as an error, and none
\* of them is left in a waitlist
C6_SourcePanicDelivered ==
  \A t \in TaskIds :
    tasks[t].out = "panic" =>
      /\ tasks[t].pc \in {"throw", "done"}
      /\ tasks[t].err = Err("panic", t)
      /\ Done(t) =>
           \A ch \in ChansOfTask(t) :
             chans[ch].sends = 1 /\ chans[ch].msg = Err("panic", t) /\ ~Waiting(ch)

C6_Witness ==
  \E t \in TaskIds :
    /\ tasks[t].out = "panic" /\ Done(t)
    /\ Cardinality(ChansOfTask(t)) >= 2
    /\ \A k \in Range(tasks[t].keys) : waitlists[k] = <<>>

\* C7 (as claimed): a panic of the storage call inside the background task
\* is recovered and sent as an error to every channel that waits for the task
C7_Claim ==
  \A t \in TaskIds :
    tasks[t].storeOut = "panic" =>
      \A ch \in ChansOfTask(t) :
        chans[ch].sends = 1 /\ chans[ch].msg = Err("panic", t)

\* C8: once the task of a fetch whose source thread-exited is done, every
\* channel that waited for it has been sent the thread-exit sentinel; a
\* caller that receives the sentinel from one of its channels thread-exits,
\* and no call ever returns the sentinel as its error
C8_GoexitPropagates ==
  /\ \A t \in TaskIds :
       (tasks[t].out = "goexit" /\ Done(t)) =>
         \A ch \in ChansOfTask(t) : chans[ch].sends = 1 /\ chans[ch].msg = errGoexit
  /\ \A c \in Callers :
       /\ callers[c].result # errGoexit
       /\ \A j \in 1..Len(callers[c].chs) :
            (j < callers[c].i /\ chans[callers[c].chs[j]].msg = errGoexit)
            => callers[c].pc = "goexit"

C8_Witness ==
  /\ \A c \in Callers : callers[c].pc = "goexit"
  /\ \E t \in TaskIds : Cardinality(ChansOfTask(t)) >= 2 /\ tasks[t].out = "goexit"

\* C9: once the task of a fetch whose store failed with an error is done,
\* every channel that waited for it has been sent that error, none the entry
C9_StoreErrorDelivered ==
  \A t \in TaskIds :
    (tasks[t].storeOut = "err" /\ Done(t)) =>
      \A ch \in ChansOfTask(t) :
        chans[ch].sends = 1 /\ chans[ch].msg = Err("store", t)

C9_Witness ==
  \E t \in TaskIds :
    /\ tasks[t].storeOut = "err" /\ Done(t)
    /\ Cardinality(ChansOfTask(t)) >= 2
    /\ \E i \in 1..Len(tasks[t].entries) :
         tasks[t].entries[i] # Nil /\ ~tasks[t].entries[i].negative

\* the positions of a batched call whose channel was sent an error, and a
\* batched call that awaited every one of its channels and returned
ErrPositions(c) ==
  {j \in 1..Len(callers[c].chs) :
     chans[callers[c].chs[j]].sends > 0 /\ chans[callers[c].chs[j]].msg.kind = "err"}
AwaitedAll(c) ==
  /\ callers[c].op = "multi"
  /\ callers[c].pc = "done"
  /\ Len(callers[c].chs) > 0
  /\ callers[c].i > Len(callers[c].chs)
Min(S) == CHOOSE x \in S : \A y \in S : x <= y
Max(S) == CHOOSE x \in S : \A y \in S : x >= y

GotError(c) ==
  /\ callers[c].op = "multi"
  /\ \E j \in 1..Len(callers[c].chs) :
       j < callers[c].i /\ chans[callers[c].chs[j]].msg.kind = "err"

EntryChans(t, k) ==
  {ch \in ChansOfTask(t) : chans[ch].key = k /\ chans[ch].sends > 0
                                             /\ chans[ch].msg.kind = "entry"}
SourceValue(t, k) ==
  tasks[t].entries[CHOOSE i \in 1..Len(tasks[t].keys) : tasks[t].keys[i] = k].value

NegativeStored(k) == storage[k] # Nil /\ storage[k].negative

\* a GetOrLoad call that waited for a fetch which returned a negative entry
\* that was stored
LoadedNegative(c) ==
  /\ callers[c].op = "single" /\ callers[c].pc = "done" /\ Len(callers[c].chs) = 1
  /\ LET t == chans[callers[c].chs[1]].task
     IN tasks[t].out = "ok" /\ tasks[t].storeOut = "ok" /\ tasks[t].entries[1] # Nil
        /\ tasks[t].entries[1].negative

\* the step of a GetOrLoad call for a key whose negative entry is stored and
\* not expired, when the storage lookup does not fail
HitsNegative(c) ==
  /\ callers[c].pc = "idle" /\ callers'[c].pc # "idle"
  /\ NegativeStored(callers'[c].keys[1])
  /\ callers'[c].result # Err("get", 0)

\* C13: a GetOrLoad whose fetch returned a negative-cache entry that was
\* stored returns nil and no error; storing it puts the negative entry in
\* storage, where it stays until it expires or a later fetch overwrites it;
\* and every GetOrLoad for the key made while it is stored and not expired
\* returns nil and no error at once, without registering for a fetch
C13_NegativeCache ==
  /\ [](\A c \in Callers : LoadedNegative(c) => callers[c].result = Nil)
  /\ [][/\ \A t \in TaskIds :
            (tasks[t].pc = "store" /\ tasks'[t].storeOut = "ok") =>
              \A i \in 1..Len(tasks[t].keys) :
                (tasks[t].entries[i] # Nil /\ tasks[t].entries[i].negative)
                => (storage'[tasks[t].keys[i]] = tasks[t].entries[i]
                    /\ NegativeStored(tasks[t].keys[i])')
        /\ \A k \in Keys :
            (NegativeStored(k) /\ storage'[k] # storage[k]) =>
              \/ storage'[k] = Nil
              \/ \E t \in TasksOf(k) : tasks[t].pc = "store" /\ tasks'[t].storeOut = "ok"
        /\ \A c \in Callers :
            HitsNegative(c) =>
              /\ callers'[c].pc = "done" /\ callers'[c].result = Nil
              /\ UNCHANGED <<tasks, waitlists, chans>>]_vars

C13_Witness ==
  \E c1, c2 \in Callers : \E k \in Keys :
    /\ LoadedNegative(c1) /\ callers[c1].keys = <<k>> /\ callers[c1].result = Nil
    /\ callers[c2].op = "single" /\ callers[c2].keys = <<k>>
    /\ callers[c2].pc = "done" /\ callers[c2].chs = <<>> /\ callers[c2].result = Nil
    /\ NegativeStored(k)
    /\ SrcCalls(k) = 1

\* a batched call that has gone to the loader, and the key of its i-th channel
WentToLoader(c) == callers[c].op = "multi" /\ callers[c].pc \in {"await", "goexit", "done"}
                                           /\ callers[c].chs # <<>>
ChanKey(c, i) == chans[callers[c].chs[i]].key

\* C14: GetOrLoadMulti notes as missing exactly the positions whose key
\* missed in storage, ascending, and takes the hits as they are; it hands the
\* loader the keys of those positions in that order (one channel each); and
\* a call that returns entries returns one per input key, the hit at every
\* hit position and the loaded result of the position's own channel at every
\* missing position
C14_MultiPartial ==
  /\ [][\A c \in Callers :
          (callers[c].pc = "idle" /\ callers'[c].op = "multi"
                                 /\ callers'[c].result # Err("get", 0)) =>
            LET keys == callers'[c].keys
                missed == {p \in 1..Len(keys) : storage[keys[p]] = Nil}
            IN /\ Range(callers'[c].indexes) = missed
               /\ Len(callers'[c].indexes) = Cardinality(missed)
               /\ \A p \in (1..Len(keys)) \ missed :
                    callers'[c].entries[p] =
                      (IF storage[keys[p]].negative THEN Nil
                       ELSE Entry(keys[p], storage[keys[p]].value))]_vars
  /\ [](\A c \in Callers :
          /\ WentToLoader(c) =>
               /\ Len(callers[c].chs) = Len(callers[c].indexes)
               /\ \A i \in 1..Len(callers[c].chs) :
                    /\ ChanKey(c, i) = callers[c].keys[callers[c].indexes[i]]
                    /\ \A j \in 1..Len(callers[c].chs) :
                         i < j => callers[c].indexes[i] < callers[c].indexes[j]
          /\ (callers[c].op = "multi" /\ callers[c].result.kind = "entries") =>
               LET out == callers[c].result.entries
               IN /\ Len(out) = Len(callers[c].keys)
                  /\ \A p \in 1..Len(out) :
                       /\ out[p] # Nil => out[p].key = callers[c].keys[p]
                       /\ \A i \in 1..Len(callers[c].indexes) :
                            callers[c].indexes[i] = p
                            => out[p] = chans[callers[c].chs[i]].msg
                       /\ (\A i \in 1..Len(callers[c].indexes) : callers[c].indexes[i] # p)
                          => out[p] = callers[c].entries[p])

C14_Witness ==
  \E c \in Callers :
    /\ WentToLoader(c) /\ callers[c].pc = "done"
    /\ Len(callers[c].keys) = 2 /\ callers[c].indexes = <<2>>
    /\ callers[c].result.kind = "entries"
    /\ callers[c].result.entries[1] = callers[c].entries[1]
    /\ callers[c].result.entries[1].kind = "entry"
    /\ callers[c].result.entries[2].kind = "entry"
    /\ callers[c].result.entries[2] = chans[callers[c].chs[1]].msg

\* ---- what the claims speak of, in-memory storage ----
Started(o) == ops[o].pc # "idle"
Returned(o) == ops[o].pc = "done"
Batched(o) == ops[o].kind \in {"GetMulti", "SetMulti"}

\* C15: every call of get, getMulti, set or setMulti that has been made
\* returns in the end, whatever calls run beside it and whichever buckets
\* they share: no call waits for a lock for ever
C15_EveryCallReturns ==
  \A o \in Ops : Started(o) ~> Returned(o)

\* a setMulti that holds both buckets while a getMulti that named the same
\* two buckets in the other order waits for the first of them
C15_Witness ==
  \E o1, o2 \in Ops :
    /\ ops[o1].kind = "SetMulti" /\ ops[o2].kind = "GetMulti"
    /\ ops[o1].locks = <<0, 1>> /\ ops[o2].locks = <<0, 1>>
    /\ resolveBucket(ops[o1].keys[1]) = 0 /\ resolveBucket(ops[o2].keys[1]) = 1
    /\ ops[o1].held = 2 /\ mu[0].w = o1 /\ mu[1].w = o1
    /\ ops[o2].pc = "lock" /\ ops[o2].held = 0

\* a reader that has read, and the entry bucket storage holds for a key
HasRead(g) == IsReader(g) /\ ops[g].pc \in {"unlock", "done"}
Stored(k) == buckets[resolveBucket(k)][k]

\* the writes i and j of a setMulti call w go to one bucket
SameBucketWrites(w, i, j) ==
  /\ ops[w].kind = "SetMulti"
  /\ i \in DOMAIN ops[w].entries /\ j \in DOMAIN ops[w].entries
  /\ ops[w].entries[i] # Nil /\ ops[w].entries[j] # Nil
  /\ resolveBucket(ops[w].entries[i].key) = resolveBucket(ops[w].entries[j].key)

\* C17: a setMulti that has written some but not all of its entries holds the
\* write lock of every bucket it writes to, with no reader inside; and a
\* reader whose result shows one write of a setMulti call shows, for every
\* other key of the same bucket it read that the call wrote too, that write
\* (or what overwrote it), unless that entry had expired at its clock reading
C17_SameBucketAtomic ==
  /\ \A w \in Ops :
       (ops[w].kind = "SetMulti" /\ ops[w].pc = "lock"
          /\ ops[w].i > 1 /\ ops[w].i <= Len(ops[w].entries)) =>
         \A b \in Range(ops[w].locks) : mu[b].w = w /\ mu[b].r = {}
  /\ \A g, w \in Ops : \A p, q \in DOMAIN ops[g].result :
       \A i, j \in DOMAIN ops[w].entries :
         (/\ HasRead(g)
          /\ SameBucketWrites(w, i, j)
          /\ ops[g].keys[p] = ops[w].entries[i].key
          /\ ops[g].keys[q] = ops[w].entries[j].key
          /\ ops[g].result[p] # Nil /\ ops[g].result[p].value.val = w)
         => \/ ~Before(ops[g].now, ops[w].entries[j].expiresAt)
            \/ ops[g].result[q] # Nil

C17_Witness ==
  \E g, w \in Ops :
    /\ ops[g].kind = "GetMulti" /\ HasRead(g)
    /\ SameBucketWrites(w, 1, 2)
    /\ ops[w].entries[1].key # ops[w].entries[2].key
    /\ ops[g].keys = <<ops[w].entries[2].key, ops[w].entries[1].key>>
    /\ \A p \in 1..2 : ops[g].result[p] # Nil /\ ops[g].result[p].value.val = w

\* C18: no get or getMulti has returned an entry whose ExpiresAt is at or
\* before the call's clock reading; and a read returns, at each position, the
\* entry stored for the key exactly when the reading is strictly before the
\* entry's ExpiresAt, negative entries included
C18_ExpiredNeverReturned ==
  /\ [](\A g \in Ops : \A p \in DOMAIN ops[g].result :
          (HasRead(g) /\ ops[g].result[p] # Nil)
          => ops[g].now < ops[g].result[p].expiresAt)
  /\ [][\A g \in Ops :
          (IsReader(g) /\ ops[g].pc = "lock" /\ ops'[g].pc # "lock") =>
            \A p \in DOMAIN ops'[g].result :
              LET v == Stored(ops[g].keys[p])
              IN ops'[g].result[p] # Nil
                 <=> (v # Nil /\ ops'[g].now < v.expiresAt)]_vars

\* a getMulti that read at the very ExpiresAt of a stored negative entry
C18_Witness ==
  \E g \in Ops :
    /\ ops[g].kind = "GetMulti" /\ HasRead(g) /\ Len(ops[g].keys) >= 1
    /\ Stored(ops[g].keys[1]) # Nil
    /\ Stored(ops[g].keys[1]).negative
    /\ ops[g].now = Stored(ops[g].keys[1]).expiresAt
    /\ ops[g].result[1] = Nil

\* the value objects of the callers' set arguments, of the buckets, and of
\* the results of the gets other than g
SetArgObjs == {ops[s].entries[1].value.obj : s \in {o \in KeyOps : ops[o].kind = "Set"}}
BucketObjs == {Stored(k).value.obj : k \in {x \in MemKeys : Stored(x) # Nil}}
OtherGetObjs(g) ==
  {ops[o].result[1].value.obj :
     o \in {x \in KeyOps \ {g} : ops[x].kind = "Get" /\ HasRead(x) /\ ops[x].result[1] # Nil}}

\* C19: a get that finds the key's entry stored and not expired returns an
\* entry equal to it in key, value content, negative flag and ExpiresAt; and
\* the value object of a non-negative result is no caller's set argument, no
\* bucket's object, and no other get's result
C19_GetReturnsUnaliasedCopy ==
  /\ [][\A g \in KeyOps :
          (ops[g].kind = "Get" /\ ops[g].pc = "lock" /\ ops'[g].pc # "lock"
             /\ ops'[g].result[1] # Nil) =>
            LET v == Stored(ops[g].keys[1])
                r == ops'[g].result[1]
            IN /\ r.key = v.key /\ r.value.val = v.value.val
               /\ r.negative = v.negative /\ r.expiresAt = v.expiresAt
               /\ ~r.negative => r.value.obj # v.value.obj]_vars
  /\ [](\A g \in KeyOps :
          (ops[g].kind = "Get" /\ HasRead(g) /\ ops[g].result[1] # Nil
             /\ ~ops[g].result[1].negative) =>
            ops[g].result[1].value.obj \notin SetArgObjs \cup BucketObjs \cup OtherGetObjs(g))

C19_Witness ==
  \E s, g1, g2 \in KeyOps :
    /\ g1 # g2
    /\ ops[s].kind = "Set" /\ Returned(s) /\ ~ops[s].entries[1].negative
    /\ \A g \in {g1, g2} :
         /\ ops[g].kind = "Get" /\ Returned(g) /\ ops[g].keys = ops[s].keys
         /\ ops[g].result[1] # Nil
         /\ ops[g].result[1].value.val = ops[s].entries[1].value.val
    /\ Stored(ops[s].keys[1]) # Nil

\* C20: the result of a getMulti has one position per key; a position that
\* holds an entry holds one of that position's key; and a read puts at each
\* position the entry stored for that position's key (a copy equal in value
\* content, negative flag and ExpiresAt) or nothing
C20_GetMultiAligned ==
  /\ [](\A g \in Ops :
          (ops[g].kind = "GetMulti" /\ HasRead(g)) =>
            /\ Len(ops[g].result) = Len(ops[g].keys)
            /\ \A p \in DOMAIN ops[g].result :
                 ops[g].result[p] # Nil => ops[g].result[p].key = ops[g].keys[p])
  /\ [][\A g \in Ops :
          (ops[g].kind = "GetMulti" /\ ops[g].pc = "lock" /\ ops'[g].pc # "lock") =>
            \A p \in 1..Len(ops[g].keys) :
              LET v == Stored(ops[g].keys[p])
                  r == ops'[g].result[p]
              IN r # Nil =>
                   /\ v # Nil /\ r.key = ops[g].keys[p]
                   /\ r.value.val = v.value.val /\ r.negative = v.negative
                   /\ r.expiresAt = v.expiresAt]_vars

\* keys of different buckets, named against the order of the buckets, both
\* found
C20_Witness ==
  \E g \in Ops :
    /\ ops[g].kind = "GetMulti" /\ HasRead(g) /\ Len(ops[g].keys) = 2
    /\ resolveBucket(ops[g].keys[1]) > resolveBucket(ops[g].keys[2])
    /\ \A p \in 1..2 : ops[g].result[p] # Nil /\ ops[g].result[p].key = ops[g].keys[p]

\* ---- what the claims speak of, on-memory index ----
\* the call of reader r ends with this step
Returns(r) == readers[r].pc # "done" /\ readers'[r].pc = "done"
\* the call of reader r has been made and has not ended
InCall(r) == readers[r].pc \in {"LockCtx", "WaitCtx", "read"}

\* C21: a Get or GetMulti returns data only from an installed snapshot; a
\* call that ends while there is none returns the cancellation error, its
\* context being done; and once its context is done a call that waits for
\* the lock or for the first snapshot ends
C21_NoDataBeforeSnapshot ==
  /\ [][\A r \in Readers :
          Returns(r) =>
            IF readers'[r].result = "data"
            THEN indexM # NilMap /\ \A j \in 1..Len(readers'[r].lists) :
                                      readers'[r].lists[j].by # 0
            ELSE readers'[r].result = "canceled" /\ readers[r].ctxDone]_vars
  /\ \A r \in Readers :
       (readers[r].ctxDone /\ InCall(r)) ~> (readers[r].pc \in {"done", "goexit"})

C21_Witness ==
  \E r \in Readers :
    /\ readers[r].pc = "done"
    /\ readers[r].result = "canceled"
    /\ readers[r].g = "waiting"
    /\ indexM = NilMap
    /\ ~indexGoexit

\* C22: a Get or GetMulti made after a Refresh has returned nil never waits
\* on the initialisation condition
C22_NoInitWaitAfterRefresh ==
  \A r \in Readers : readers[r].after => readers[r].pc # "WaitCtx"

\* C23: all the lists one Get or GetMulti call copies out come from one
\* snapshot, and are that snapshot's lists
C23_OneSnapshotPerCall ==
  \A r \in Readers :
    \A j \in 1..Len(readers[r].lists) :
      LET l == readers[r].lists[j]
      IN /\ l.by = readers[r].lists[1].by
         /\ l.by \in Refreshers
         /\ l.pks = refreshers[l.by].map.map[l.sk]

C23_Witness ==
  \E r \in Readers :
    /\ readers[r].kind = "GetMulti"
    /\ readers[r].pc = "read"
    /\ readers[r].i = 2
    /\ indexMu.w # 0
    /\ refreshers[indexMu.w].pc = "install"
    /\ refreshers[indexMu.w].map # NilMap
    /\ refreshers[indexMu.w].map.map # indexM.map

\* the source of Refresh call f returned an error or panicked
SourceFailed(f) == refreshers[f].out \in {"error", "panic"}

\* C24: a Refresh whose source returns an error or panics returns an error
\* with that step, which changes neither the snapshot, the exited flag, the
\* lock nor any reader; it takes no step after it
C24_FailedRefreshTouchesNothing ==
  [][\A f \in Refreshers :
       /\ (~SourceFailed(f) /\ SourceFailed(f)') =>
            /\ refreshers'[f].pc = "done"
            /\ refreshers'[f].result = "error"
            /\ UNCHANGED <<indexM, indexGoexit, indexMu, readers>>
       /\ SourceFailed(f) => refreshers'[f] = refreshers[f]]_vars

C24_Witness ==
  \E f \in Refreshers, r \in Readers :
    /\ refreshers[f].out = "panic"
    /\ refreshers[f].pc = "done"
    /\ readers[r].pc = "WaitCtx"
    /\ readers[r].g = "waiting"
    /\ indexM = NilMap

\* the call of reader r ends with this step, by a return or a thread-exit
Ends(r) == InCall(r) /\ readers'[r].pc \in {"done", "goexit"}
\* the source has thread-exited and there is no snapshot
ExitedNoSnapshot == indexGoexit /\ indexM = NilMap

\* C25, as claimed: a Refresh whose source thread-exits sets the exited flag
\* and wakes every waiting reader, and every call that ends while the flag is
\* set and there is no snapshot ends by a thread-exit
C25_Original ==
  /\ [](\A f \in Refreshers : refreshers[f].pc = "goexit" => indexGoexit)
  /\ [](ExitedNoSnapshot => \A r \in Readers : readers[r].g # "waiting")
  /\ [][\A r \in Readers :
          (ExitedNoSnapshot /\ Ends(r)) => readers'[r].pc = "goexit"]_vars

\* C25: the same, but a call whose context is done may end by returning the
\* cancellation error instead; none returns data
C25_ExitedPropagates ==
  /\ [](\A f \in Refreshers : refreshers[f].pc = "goexit" => indexGoexit)
  /\ [](ExitedNoSnapshot => \A r \in Readers : readers[r].g # "waiting")
  /\ [][\A r \in Readers :
          (ExitedNoSnapshot /\ Ends(r)) =>
            \/ readers'[r].pc = "goexit"
            \/ readers'[r].result = "canceled" /\ readers[r].ctxDone]_vars

C25_Witness ==
  /\ \E f \in Refreshers : refreshers[f].pc = "goexit"
  /\ \A r \in Readers : readers[r].pc = "goexit"
  /\ \E r \in Readers : ~readers[r].after /\ readers[r].kind = "GetMulti"
  /\ indexM = NilMap

\* ---- what the claims speak of, composite indexes ----
OnlyLeft(key) == ~key.Left.Empty /\ key.Right.Empty
OnlyRight(key) == key.Left.Empty /\ ~key.Right.Empty
BothSides(key) == ~key.Left.Empty /\ ~key.Right.Empty

\* C16: a Get of OrIndex or AndIndex for a key with one side only asks that
\* side's index alone and, unless it fails, returns its answer unchanged; an
\* AndIndex Get with one empty answer returns empty only for a key with both
\* sides, and for such a key it does
C16_OneSidedKey ==
  /\ OnlyLeft(lookup.key) =>
       /\ lookup.askedLeft /\ ~lookup.askedRight
       /\ ~lookup.err => lookup.pks = lookup.left.pks
  /\ OnlyRight(lookup.key) =>
       /\ ~lookup.askedLeft /\ lookup.askedRight
       /\ ~lookup.err => lookup.pks = lookup.right.pks
  /\ (lookup.op = "AndIndex.Get" /\ BothSides(lookup.key) /\ ~lookup.err
        /\ (lookup.left.pks = <<>> \/ lookup.right.pks = <<>>))
     => lookup.pks = <<>>
  /\ (lookup.op = "AndIndex.Get" /\ ~lookup.err /\ lookup.pks = <<>>
        /\ (lookup.left.pks # <<>> \/ lookup.right.pks # <<>>))
     => BothSides(lookup.key)

C16_Witness ==
  /\ lookup.op = "AndIndex.Get"
  /\ OnlyLeft(lookup.key)
  /\ Len(lookup.left.pks) = 2
  /\ lookup.pks = lookup.left.pks

NoDuplicates(seq) == \A i, j \in DOMAIN seq : i # j => seq[i] # seq[j]

\* C26: what OrIndex.Get returns holds no primary key twice, and each of its
\* primary keys is in the left or in the right index's answer
C26_UnionIsSet ==
  (lookup.op = "OrIndex.Get" /\ ~lookup.err) =>
    /\ NoDuplicates(lookup.pks)
    /\ Range(lookup.pks) \subseteq Range(lookup.left.pks) \cup Range(lookup.right.pks)

\* C27: for a key with both sides, what AndIndex.Get returns are the primary
\* keys that are in both indexes' answers: each of them, and no other
C27_IntersectionIsExact ==
  (lookup.op = "AndIndex.Get" /\ BothSides(lookup.key) /\ ~lookup.err) =>
    Range(lookup.pks) = Range(lookup.left.pks) \cap Range(lookup.right.pks)

\* what the single-key Get of the same index returns for key over the
\* contents the batched lookup was made over
SingleOp == IF multi.op = "OrIndex.GetMulti" THEN "OrIndex.Get" ELSE "AndIndex.Get"
SingleGet(key) ==
  CompositeGet(SingleOp, key, SideGet(multi.left, key.Left), SideGet(multi.right, key.Right)).pks
\* the list the batched lookup returned for key, none counting as empty
MultiEntry(key) == IF key \in DOMAIN multi.result THEN multi.result[key] ELSE <<>>
\* the same primary keys, each as often
SameKeys(a, b) ==
  \A v \in PrimaryKeys :
    Cardinality({i \in DOMAIN a : a[i] = v}) = Cardinality({i \in DOMAIN b : b[i] = v})

Found(c, op) ==
  /\ finds[c].op = op
  /\ callers[c].pc = "done"
  /\ callers[c].result.kind = "entries"

\* C29, as claimed: the list FindBySecondaryKey returns holds no nil
C29_NoNilInResult ==
  \A c \in Callers :
    Found(c, "FindBySecondaryKey") =>
      \A i \in DOMAIN callers[c].result.entries : callers[c].result.entries[i] # Nil

\* how often list holds x
Count(list, x) == Cardinality({i \in DOMAIN list : list[i] = x})
\* the places of the map FindBySecondaryKeys returns: a secondary key and a
\* position of its list
Places(map) == {pl \in SecondaryKeys \X (1..(NumSecondaryKeys * MaxBatch * NumKeys)) :
                  pl[2] <= Len(map[pl[1]])}

C31_EarlyAsGeneral ==
  (expired.policy = "Early" /\ (expired.draw > expired.p.Percentage \/ expired.p.Duration = 0))
    => expired.verdict = GeneralIsExpired(expired.now, expired.expiresAt)

\* ---- what the claims speak of, on-memory index, the read lock ----
\* the call of reader r is over: it returned or thread-exited
Finished(r) == readers[r].pc \in {"done", "goexit"}

\* C32, as claimed: once a Get or GetMulti call is over, however it ended,
\* the read lock it took is released, or is in the hands of the helper that
\* a cancelled call leaves behind to release it; so no finished call stands
\* in the way of the write lock of a later Refresh
C32_FinishedCallHoldsNoLock ==
  \A r \in Readers :
    (Finished(r) /\ r \in indexMu.r) => readers[r].abandoned

\* ---- what the claims speak of, the batched load ----
\* the keys caller c hands to LoadAndStoreMulti: those GetMulti missed
Missing(c) == [i \in 1..Len(callers[c].indexes) |-> callers[c].keys[callers[c].indexes[i]]]
\* the positions of keys that hold a key for the first time and whose key
\* has an empty waitlist
FirstSeen(keys) ==
  {i \in DOMAIN keys : waitlists[keys[i]] = <<>> /\ \A j \in 1..(i - 1) : keys[j] # keys[i]}
\* the registration step of the LoadAndStoreMulti call of caller c
Registers(c) ==
  /\ callers[c].op = "multi"
  /\ callers[c].pc = "register"
  /\ callers'[c].pc = "await"

\* C33: the registration of a LoadAndStoreMulti call launches no task when
\* none of its keys is first seen, and else one task, whose keys are the
\* first-seen keys of the call, each once, in input order; every key of the
\* call has, after the step, an unfinished task covering it, which for a key
\* with a non-empty waitlist is a task launched earlier; and no task asks
\* the source more than once
C33_OneTaskForFirstSeenKeys ==
  /\ [][\A c \in Callers :
          Registers(c) =>
            LET keys == Missing(c)
                first == FirstSeen(keys)
                new == tasks'[Len(tasks')].keys
            IN /\ Len(tasks') = Len(tasks) + (IF first = {} THEN 0 ELSE 1)
               /\ \A t \in 1..Len(tasks) : tasks'[t] = tasks[t]
               /\ first # {} =>
                    /\ Len(new) = Cardinality(first)
                    /\ \A a \in DOMAIN new :
                         \E i \in first :
                           /\ keys[i] = new[a]
                           /\ Cardinality({j \in first : j < i}) = a - 1
               /\ \A i \in DOMAIN keys :
                    \E t \in 1..Len(tasks') :
                      /\ tasks'[t].pc # "done"
                      /\ keys[i] \in Range(tasks'[t].keys)
                      /\ waitlists[keys[i]] # <<>> => t <= Len(tasks)]_vars
  /\ [][\A t \in 1..Len(tasks) : tasks[t].out # "none" => tasks'[t].out = tasks[t].out]_vars

\* a batched call has registered a key that was in flight next to a key
\* that was first seen: its task asks for the second key alone
C33_Witness ==
  \E c \in Callers, t \in 1..Len(tasks), u \in 1..Len(tasks) :
    /\ callers[c].op = "multi"
    /\ callers[c].pc = "await"
    /\ Len(callers[c].chs) = 2
    /\ tasks[t].op = "multi"
    /\ tasks[u].op = "single"
    /\ u < t
    /\ chans[callers[c].chs[1]].task = u
    /\ chans[callers[c].chs[2]].task = t
    /\ tasks[t].keys = <<chans[callers[c].chs[2]].key>>
    /\ tasks[u].keys = <<chans[callers[c].chs[1]].key>>

\* ---- what the claims speak of, delivery ----
\* every channel is made with room for one message
ChanCap == 1

\* C34: no channel is ever sent more than it has room for, whether or not
\* its waiter still reads it, so no send of a fan-out blocks; and unless the
\* process has crashed in a storage call, every caller that waits for its
\* channels comes to the end of its wait
C34_DeliveryNeverBlocks ==
  /\ [](\A ch \in 1..Len(chans) : chans[ch].sends <= ChanCap)
  /\ \A c \in Callers :
       (callers[c].pc = "await") ~> (callers[c].pc # "await" \/ crashed)

\* a task has delivered to a channel that nobody reads any more: its waiter
\* thread-exited on an earlier channel and left no helper, while the waiter
\* of another of its channels has received
C34_Witness ==
  \E c \in Callers, d \in Callers :
    /\ c # d
    /\ callers[c].pc = "goexit"
    /\ Len(callers[c].chs) = 2
    /\ callers[c].i = 2
    /\ chans[callers[c].chs[2]].sends = 1
    /\ ~chans[callers[c].chs[2]].recvd
    /\ callers[d].pc = "done"
    /\ Len(callers[d].chs) = 1
    /\ chans[callers[d].chs[1]].recvd

\* ---- what the claims speak of, store before delivery ----
\* channel ch is sent a loaded entry with this step
SentEntry(ch) ==
  /\ chans[ch].sends = 0
  /\ chans'[ch].sends = 1
  /\ chans'[ch].msg.kind = "entry"

\* C35: a channel is sent an entry only by the fan-out of a task that
\* fetched that entry for the channel's key and whose storage call, made
\* with that entry, has returned without an error; and a caller that
\* returns a loaded entry has received it from such a channel
C35_StoredBeforeDelivered ==
  /\ [][\A ch \in 1..Len(chans) :
          SentEntry(ch) =>
            \E t \in 1..Len(tasks) :
              /\ tasks[t].pc = "send"
              /\ tasks'[t].pc = "done"
              /\ tasks[t].storeOut = "ok"
              /\ \E i \in DOMAIN tasks[t].keys :
                   /\ tasks[t].keys[i] = chans[ch].key
                   /\ tasks[t].entries[i] # Nil
                   /\ ~tasks[t].entries[i].negative
                   /\ tasks[t].entries[i].value.val = chans'[ch].msg.value.val]_vars
  /\ [](\A c \in Callers :
          (callers[c].op = "single" /\ callers[c].pc = "done" /\ Len(callers[c].chs) = 1
             /\ callers[c].result.kind = "entry")
          => /\ chans[callers[c].chs[1]].msg = callers[c].result
             /\ \E t \in 1..Len(tasks) :
                  /\ tasks[t].pc = "done"
                  /\ tasks[t].storeOut = "ok"
                  /\ callers[c].keys[1] \in Range(tasks[t].keys))

\* a caller has returned an entry it was sent, while a batched task that
\* fetched two entries has stored them and delivered them
C35_Witness ==
  \E c \in Callers, t \in 1..Len(tasks) :
    /\ callers[c].op = "single"
    /\ callers[c].pc = "done"
    /\ Len(callers[c].chs) = 1
    /\ callers[c].result.kind = "entry"
    /\ tasks[t].op = "multi"
    /\ tasks[t].pc = "done"
    /\ tasks[t].storeOut = "ok"
    /\ Len(tasks[t].keys) = 2
    /\ callers[c].keys[1] \in Range(tasks[t].keys)
    /\ chans[callers[c].chs[1]].task = t

\* the writes i and j of a setMulti call w, in whichever buckets
BatchWrites(w, i, j) ==
  /\ ops[w].kind = "SetMulti"
  /\ i \in DOMAIN ops[w].entries /\ j \in DOMAIN ops[w].entries
  /\ ops[w].entries[i] # Nil /\ ops[w].entries[j] # Nil
\* the entry stored for key k is what the write i of the call w put there
IsWriteOf(k, w, i) ==
  /\ Stored(k) # Nil
  /\ Stored(k).value.obj = Obj("set", <<w, i>>)

\* C36: when a get or getMulti reads and returns, for one of its keys, the
\* entry a write of a setMulti call stored, every other write of that call to
\* a key the reader also reads has been made already, whichever bucket it
\* goes to: the reader finds there that write or a later one, and returns it
\* unless it has expired at the reader's clock reading
C36_AllOrNothingAcrossBuckets ==
  [][\A g, w \in Ops :
       (IsReader(g) /\ ops[g].pc = "lock" /\ ops'[g].pc # "lock") =>
         \A p, q \in DOMAIN ops[g].keys : \A i, j \in DOMAIN ops[w].entries :
           (/\ BatchWrites(w, i, j)
            /\ ops[g].keys[p] = ops[w].entries[i].key
            /\ ops[g].keys[q] = ops[w].entries[j].key
            /\ ops'[g].result[p] # Nil
            /\ IsWriteOf(ops[g].keys[p], w, i))
           => /\ ops[w].i > j
              /\ Stored(ops[g].keys[q]) # Nil
              /\ \/ ops'[g].result[q] # Nil
                 \/ ~Before(ops'[g].now, Stored(ops[g].keys[q]).expiresAt)]_vars

\* a getMulti over two buckets that returned both writes of a setMulti
C36_Witness ==
  \E g, w \in Ops :
    /\ ops[g].kind = "GetMulti" /\ HasRead(g)
    /\ BatchWrites(w, 1, 2)
    /\ resolveBucket(ops[w].entries[1].key) # resolveBucket(ops[w].entries[2].key)
    /\ ops[g].keys = <<ops[w].entries[1].key, ops[w].entries[2].key>>
    /\ \A p \in 1..2 : ops[g].result[p] # Nil /\ ops[g].result[p].value.val = w

KeysOfList(list) == [i \in DOMAIN list |-> list[i].key]
\* the list the index answered for sk, none counting as empty
Named(m, sk) == IF m[sk] = NoPks THEN <<>> ELSE m[sk].pks
\* the primary keys GetOrLoadMulti handed an entry back for
Loaded(c) ==
  {callers[c].result.entries[p].key :
     p \in {q \in DOMAIN callers[c].result.entries : callers[c].result.entries[q] # Nil}}
\* the primary keys of pks that have an entry, in the order of pks
InOrderOf(pks, loaded) ==
  LET has(k) == k \in loaded
  IN SelectSeq(pks, has)
\* the primary keys of keys[p..] that have an entry, in the order of keys,
\* each as often as named holds it
RECURSIVE InOrderOfKeys(_, _, _, _)
InOrderOfKeys(keys, p, named, loaded) ==
  IF p > Len(keys) THEN <<>>
  ELSE (IF keys[p] \in loaded THEN [i \in 1..Count(named, keys[p]) |-> keys[p]] ELSE <<>>)
       \o InOrderOfKeys(keys, p + 1, named, loaded)
\* the list of sk names no primary key twice
NamesOnce(m, sk) == \A k \in Keys : Count(Named(m, sk), k) <= 1

\* C38, as claimed: under every secondary key, the entries FindBySecondaryKeys
\* returns stand in the order of their primary keys in the index's list for
\* the key
C38_IndexListOrder ==
  \A c \in Callers :
    Found(c, "FindBySecondaryKeys") =>
      \A sk \in SecondaryKeys :
        KeysOfList(FindBySecondaryKeysReturn(c).map[sk])
          = InOrderOf(Named(finds[c].m, sk), Loaded(c))

\* C38: under every secondary key, the entries FindBySecondaryKeys returns
\* are those of the primary keys of the index's list for the key, each as
\* often as the list names it, in the order in which the primary keys were
\* first met while ranging over the index's answer; for the secondary key
\* met first, if its list names no primary key twice, that is the order of
\* the index's list
C38_FirstVisitOrder ==
  \A c \in Callers :
    Found(c, "FindBySecondaryKeys") =>
      LET map == FindBySecondaryKeysReturn(c).map
          m == finds[c].m
      IN /\ \A sk \in SecondaryKeys :
              KeysOfList(map[sk])
                = InOrderOfKeys(finds[c].keys, 1, Named(m, sk), Loaded(c))
         /\ finds[c].keys # <<>> =>
              LET first == finds[c].rm[finds[c].keys[1]][1]
              IN NamesOnce(m, first) =>
                   KeysOfList(map[first]) = InOrderOf(Named(m, first), Loaded(c))

\* two secondary keys whose lists name the same two primary keys in opposite
\* orders, both loaded: the lists returned are in the order of the key met
\* first
C38_Witness ==
  \E c \in Callers : \E sk1, sk2 \in SecondaryKeys :
    /\ Found(c, "FindBySecondaryKeys")
    /\ Len(finds[c].keys) = 2
    /\ Named(finds[c].m, sk1) = finds[c].keys
    /\ Named(finds[c].m, sk2) = <<finds[c].keys[2], finds[c].keys[1]>>
    /\ Loaded(c) = Range(finds[c].keys)
    /\ KeysOfList(FindBySecondaryKeysReturn(c).map[sk1]) = finds[c].keys
    /\ KeysOfList(FindBySecondaryKeysReturn(c).map[sk2]) = finds[c].keys

\* ---- what the claims speak of, cancelled lock and wait ----
\* the call of reader r returned the cancellation error of LockCtx or WaitCtx
Canceled(r) == readers[r].pc = "done" /\ readers[r].result = "canceled"
\* the read lock is taken in the name of reader r
ReadLocked(r) == r \in indexMu.r

\* C39: a call that LockCtx or WaitCtx ended with the cancellation error has
\* read nothing and has left a helper; the read lock is taken in its name
\* only while the goroutine started for it has it (taken and not yet handed
\* to the helper's Unlock, or not yet given up by Cond.Wait); and whenever
\* it is so taken, it is released in the end
C39_CancelledLockIsReleased ==
  /\ [](\A r \in Readers :
          Canceled(r) =>
            /\ readers[r].abandoned
            /\ readers[r].lists = <<>>
            /\ ReadLocked(r) <=> readers[r].g \in {"held", "spawned"})
  /\ \A r \in Readers : (Canceled(r) /\ ReadLocked(r)) ~> ~ReadLocked(r)

\* the helper of a cancelled call has released the read lock while a
\* Refresh waits for the readers to leave
C39_Witness ==
  \E r \in Readers :
    /\ Canceled(r)
    /\ readers[r].g = "none"
    /\ ~ReadLocked(r)
    /\ indexMu.w # 0

\* ---- what the claims speak of, a miss of the source ----
\* the source call of task t returned, and returned nil for its i-th key
NilAt(t, i) ==
  /\ tasks[t].out = "ok"
  /\ i \in DOMAIN tasks[t].keys
  /\ tasks[t].entries[i] = Nil
\* some finished task's source call returned nil for key k
MissedBefore(k) ==
  \E t \in TasksOf(k) : \E i \in DOMAIN tasks[t].keys :
    tasks[t].keys[i] = k /\ NilAt(t, i) /\ tasks[t].pc = "done"

\* C40: the storage call of a task leaves what is stored under every key the
\* source returned nil for as it was, and a single-key task whose source
\* returned nil makes no storage call; the fan-out sends nil to every waiter
\* of such a key; and a GetOrLoad that missed in storage and registers for a
\* key that a finished task's source returned nil for, with no fetch of the
\* key in flight, launches a new fetch of the key
C40_MissWritesNothing ==
  /\ [][\A t \in 1..Len(tasks) : \A i \in DOMAIN tasks[t].keys :
          NilAt(t, i) =>
            /\ (tasks[t].pc = "store" /\ tasks'[t].pc # "store")
                 => storage'[tasks[t].keys[i]] = storage[tasks[t].keys[i]]
            /\ (tasks[t].pc = "send" /\ tasks'[t].pc = "done")
                 => \A ch \in Range(waitlists[tasks[t].keys[i]]) :
                      chans'[ch].msg = Nil /\ chans'[ch].closed]_vars
  /\ [](\A t \in 1..Len(tasks) :
          (tasks[t].op = "single" /\ NilAt(t, 1)) => tasks[t].storeOut = "none")
  /\ [][\A c \in Callers :
          (callers[c].op = "single" /\ callers[c].pc = "register"
             /\ callers'[c].pc = "await"
             /\ MissedBefore(callers[c].keys[1])
             /\ InFlight(callers[c].keys[1]) = {})
          => /\ Len(tasks') = Len(tasks) + 1
             /\ tasks'[Len(tasks')].keys = callers[c].keys
             /\ tasks'[Len(tasks')].pc = "fetch"]_vars

\* a batched fetch returned nil for a key that an earlier fetch had stored an
\* entry for: the storage call was made, the entry is still there, and the
\* waiter got nil
C40_Witness ==
  \E t \in 1..Len(tasks) : \E i \in DOMAIN tasks[t].keys : \E c \in Callers :
    /\ NilAt(t, i)
    /\ tasks[t].op = "multi" /\ tasks[t].storeOut = "ok" /\ tasks[t].pc = "done"
    /\ storage[tasks[t].keys[i]] # Nil
    /\ callers[c].op = "multi" /\ callers[c].pc = "done"
    /\ callers[c].result.kind = "entries"
    /\ \E p \in DOMAIN callers[c].keys :
         callers[c].keys[p] = tasks[t].keys[i] /\ callers[c].result.entries[p] = Nil

====
